---- MODULE Spec2Model ----
(***************************************************************************)
(* Plan-Reflect-Refine orchestration of the farm advisory agent            *)
(* (planning.py): SequentialPlanningAgent.create_validated_agricultural_   *)
(* plan with its three gateway phases, and the stand-alone                 *)
(* ReflectionAgent.evaluate_agricultural_advice; then the conversation     *)
(* memory and the session manager (core/memory.py), the guardrail checker  *)
(* (core/guardrails.py), the request callback (core/callbacks.py), one     *)
(* query of main.py, the planning tool (tools/tools.py) and the caches of  *)
(* the data-source processors (processors.py), each with a specification   *)
(* of its own over the same variables.                                     *)
(*                                                                         *)
(* Scores are kept in hundredths (0.75 is 75).                             *)
(***************************************************************************)
EXTENDS Integers, Sequences, FiniteSets, TLC

\* config.quality_threshold = 0.75, in hundredths
quality_threshold == 75

\* config.max_refinement_iterations
max_refinement_iterations == 2

----------------------------------------------------------------------------
(* Gateway completions.                                                    *)
(* A completion is what generate_content hands back: a fault, no response, *)
(* or a response whose text is empty or carries a body.  The body is the   *)
(* JSON value json.loads would build from it, or "invalid" when json.loads *)
(* raises JSONDecodeError.  tag is the identity of the content: the number *)
(* of the gateway call that produced it.                                   *)

\* values of the overall_quality_score field of a parsed object
ScoreNumbers == {0, 60, 70, 72, 75, 100}

NumScore(n) == [k |-> "num", v |-> n]
AbsentScore == [k |-> "absent", v |-> 0]
\* a value that does not order against a float (str, null, list)
BadScore == [k |-> "nonnumeric", v |-> 0]
\* json.loads accepts NaN; every ordering comparison with it is false
NanScore == [k |-> "nan", v |-> 0]

ScoreFields == {NumScore(n) : n \in ScoreNumbers} \cup {AbsentScore, BadScore, NanScore}

\* the 'steps' field of a parsed object: absent, a list, or a value len() rejects
StepsFields == {"absent", "list", "unsized"}

JsonInvalid == [type |-> "invalid"]
JsonNull == [type |-> "null"]
JsonArray(n) == [type |-> "array", len |-> n]
JsonObject(sc, st, other, raw) ==
    [type |-> "object", score |-> sc, steps |-> st, other |-> other, raw_plan |-> raw]

NoResponse == [kind |-> "none"]
Fault == [kind |-> "raise"]
EmptyText == [kind |-> "text", empty |-> TRUE]
Text(fenced, body, tag) ==
    [kind |-> "text", empty |-> FALSE, fenced |-> fenced, body |-> body, tag |-> tag]

\* Python truthiness of the value json.loads returned
Truthy(v) ==
    CASE v.type = "null" -> FALSE
      [] v.type = "array" -> v.len > 0
      [] v.type = "object" ->
            v.score.k # "absent" \/ v.steps # "absent" \/ v.other \/ v.raw_plan
      [] OTHER -> FALSE

None == [type |-> "None"]

\* JsonUtils.extract_and_parse_json: the fenced block (when there is one) or
\* the whole text goes to json.loads; a decode error gives None.  The parsed
\* value keeps the identity of the text it came from.
extract_and_parse_json(text) ==
    IF text.empty THEN None
    ELSE IF text.body.type = "invalid" THEN None
    ELSE [val |-> text.body, tag |-> text.tag, type |-> text.body.type]

\* 'response and response.text'
HasText(response) == response.kind = "text" /\ ~response.empty

\* 'if data:' on the parser's result
Parsed(data) == data # None /\ Truthy(data.val)

\* dict.get('overall_quality_score', 0.0)
GetScore(data) ==
    IF data.val.score.k = "absent" THEN NumScore(0) ELSE data.val.score

\* score >= threshold and score < threshold on floats
ScoreGE(score, threshold) == score.k = "num" /\ score.v >= threshold
ScoreLT(score, threshold) == score.k = "num" /\ score.v < threshold

----------------------------------------------------------------------------
(* Results of the phase helpers.  Raised stands for an exception leaving   *)
(* the helper.                                                             *)

Raised == [status |-> "raised"]

\* {"raw_plan": text}, {"raw_evaluation": text}, {"quality_assessment": text}
RawWrap(key, text) ==
    [type |-> "object", tag |-> text.tag, key |-> key,
     val |-> JsonObject(AbsentScore, "absent", FALSE, key = "raw_plan")]

\* planning that wraps an absent text instead of failing
_generate_agricultural_plan_WrapsNoText(response) ==
    IF response.kind = "raise" THEN Raised
    ELSE IF HasText(response) THEN
        LET plan_data == extract_and_parse_json(response) IN
        IF Parsed(plan_data) THEN
            IF plan_data.type # "object" \/ plan_data.val.steps = "unsized"
            THEN Raised
            ELSE [status |-> "success", plan |-> plan_data]
        ELSE [status |-> "partial_success", plan |-> RawWrap("raw_plan", response)]
    ELSE [status |-> "success",
          plan |-> [type |-> "object", tag |-> 0, key |-> "raw_plan",
                    val |-> JsonObject(AbsentScore, "absent", FALSE, TRUE)]]

\* SequentialPlanningAgent._generate_agricultural_plan, given the completion
_generate_agricultural_plan(response) ==
    IF response.kind = "raise" THEN Raised
    ELSE IF HasText(response) THEN
        LET plan_data == extract_and_parse_json(response) IN
        IF Parsed(plan_data) THEN
            \* len(plan_data.get('steps', [])) in the log line
            IF plan_data.type # "object" \/ plan_data.val.steps = "unsized"
            THEN Raised
            ELSE [status |-> "success", plan |-> plan_data]
        ELSE [status |-> "partial_success", plan |-> RawWrap("raw_plan", response)]
    ELSE [status |-> "error"]

\* evaluation that reads response.text without testing the response
_evaluate_plan_quality_NoGuard(response, threshold) ==
    IF response.kind \in {"raise", "none"} THEN Raised
    ELSE IF HasText(response) THEN
        LET evaluation_data == extract_and_parse_json(response) IN
        IF Parsed(evaluation_data) THEN
            IF evaluation_data.type # "object" THEN Raised
            ELSE IF GetScore(evaluation_data).k = "nonnumeric" THEN Raised
            ELSE [status |-> "success", evaluation |-> evaluation_data,
                  meets_threshold |-> ScoreGE(GetScore(evaluation_data), threshold)]
        ELSE [status |-> "partial_success",
              evaluation |-> RawWrap("raw_evaluation", response),
              meets_threshold |-> FALSE]
    ELSE [status |-> "error"]

\* SequentialPlanningAgent._evaluate_plan_quality, given the completion
_evaluate_plan_quality(response, threshold) ==
    IF response.kind = "raise" THEN Raised
    ELSE IF HasText(response) THEN
        LET evaluation_data == extract_and_parse_json(response) IN
        IF Parsed(evaluation_data) THEN
            IF evaluation_data.type # "object" THEN Raised
            ELSE IF GetScore(evaluation_data).k = "nonnumeric" THEN Raised
            ELSE [status |-> "success", evaluation |-> evaluation_data,
                  meets_threshold |-> ScoreGE(GetScore(evaluation_data), threshold)]
        ELSE [status |-> "partial_success",
              evaluation |-> RawWrap("raw_evaluation", response),
              meets_threshold |-> FALSE]
    ELSE [status |-> "error"]

\* refinement that keeps unstructured text as the refined plan
_refine_plan_WrapsRaw(response) ==
    IF response.kind = "raise" THEN Raised
    ELSE IF HasText(response) THEN
        LET refined_plan == extract_and_parse_json(response) IN
        IF Parsed(refined_plan)
        THEN [status |-> "success", refined_plan |-> refined_plan]
        ELSE [status |-> "success", refined_plan |-> RawWrap("raw_plan", response)]
    ELSE [status |-> "error"]

\* SequentialPlanningAgent._refine_plan, given the completion
_refine_plan(response) ==
    IF response.kind = "raise" THEN Raised
    ELSE IF HasText(response) THEN
        LET refined_plan == extract_and_parse_json(response) IN
        IF Parsed(refined_plan)
        THEN [status |-> "success", refined_plan |-> refined_plan]
        ELSE [status |-> "error"]
    ELSE [status |-> "error"]

\* SequentialPlanningAgent._extract_plan_text
_extract_plan_text(plan_data) ==
    IF plan_data.type = "object" THEN
        IF plan_data.val.raw_plan
        THEN [how |-> "raw_plan", of |-> plan_data.tag]
        ELSE [how |-> "safe_dumps", of |-> plan_data.tag]
    ELSE [how |-> "str", of |-> plan_data.tag]

\* ReflectionAgent.evaluate_agricultural_advice, given the completion; its
\* try/except turns every exception into an error result
evaluate_agricultural_advice(response, threshold) ==
    IF response.kind = "raise" THEN [status |-> "error"]
    ELSE IF HasText(response) THEN
        LET evaluation_data == extract_and_parse_json(response) IN
        IF Parsed(evaluation_data) THEN
            IF evaluation_data.type # "object" THEN [status |-> "error"]
            ELSE IF GetScore(evaluation_data).k = "nonnumeric" THEN [status |-> "error"]
            ELSE [status |-> "success", evaluation |-> evaluation_data,
                  meets_threshold |-> ScoreGE(GetScore(evaluation_data), threshold)]
        ELSE [status |-> "success",
              evaluation |-> RawWrap("quality_assessment", response),
              meets_threshold |-> TRUE]
    ELSE [status |-> "error"]

\* the loop condition counting one attempt too many
ShouldRefine_OffByOne(score, count) ==
    ScoreLT(score, quality_threshold) /\ count <= max_refinement_iterations

\* the loop condition without the score test
ShouldRefine_IgnoresScore(score, count) == count < max_refinement_iterations

\* the loop condition without the iteration bound
ShouldRefine_Unbounded(score, count) == ScoreLT(score, quality_threshold)

\* the loop condition stopping one attempt early
ShouldRefine_StopsEarly(score, count) ==
    ScoreLT(score, quality_threshold) /\ count < max_refinement_iterations - 1

\* the refinement loop's condition
ShouldRefine(score, count) ==
    ScoreLT(score, quality_threshold) /\ count < max_refinement_iterations

\* approval on a strict comparison
FinalStatus_Strict(score) ==
    IF score.k = "num" /\ score.v > quality_threshold
    THEN "approved" ELSE "conditionally_approved"

\* Phase 4: final_status
FinalStatus(score) ==
    IF ScoreGE(score, quality_threshold) THEN "approved" ELSE "conditionally_approved"

----------------------------------------------------------------------------
(* Completions each phase may receive.  Fields a phase never reads are     *)
(* held fixed.                                                             *)

PlanBodies ==
    {JsonInvalid, JsonNull, JsonArray(0), JsonArray(1),
     JsonObject(AbsentScore, "absent", FALSE, FALSE),
     JsonObject(AbsentScore, "absent", FALSE, TRUE)}
    \cup {JsonObject(AbsentScore, st, TRUE, FALSE) : st \in StepsFields}

EvalBodies ==
    {JsonInvalid, JsonNull, JsonArray(1),
     JsonObject(AbsentScore, "absent", FALSE, FALSE)}
    \cup {JsonObject(sc, "absent", TRUE, FALSE) : sc \in ScoreFields}

Completions(bodies, tag) ==
    {Fault, NoResponse, EmptyText}
    \cup {Text(FALSE, b, tag) : b \in bodies}
    \cup {Text(TRUE, b, tag) : b \in {JsonInvalid, JsonObject(AbsentScore, "list", TRUE, FALSE),
                                       JsonObject(NumScore(75), "absent", TRUE, FALSE)}
                                      \cap bodies}

----------------------------------------------------------------------------
(* ConversationMemoryManager (core/memory.py).                             *)
(* A query, a response and a profile scalar are strings, kept as the       *)
(* sequence of their whitespace-separated words; "" is <<>>.  What a word  *)
(* contains is read from a table, since keyword detection is the           *)
(* substring test 'keyword in text.lower()'.                               *)

\* config.max_detailed_conversations
max_detailed_conversations == 8

\* the words the modelled conversations are made of
Vocabulary ==
    {"rice", "price", "Wheat", "paddy", "pest", "weather", "organic",
     "punjab", "supply", "haryana", "5", "acres", "Hectare", "farm"}

\* the keywords of the tables of _extract_farmer_info and of the fallback
\* summary that are substrings of word.lower()
SubstringsOf(word) ==
    CASE word = "rice" -> {"rice"}
      [] word = "price" -> {"price", "rice"}
      [] word = "Wheat" -> {"wheat"}
      [] word = "paddy" -> {"paddy"}
      [] word = "pest" -> {"pest"}
      [] word = "weather" -> {"weather"}
      [] word = "organic" -> {"organic"}
      [] word = "punjab" -> {"punjab"}
      [] word = "supply" -> {"up"}
      [] word = "haryana" -> {"haryana"}
      [] word = "acres" -> {"acres", "acre"}
      [] word = "Hectare" -> {"hectare"}
      [] OTHER -> {}

\* w.lower()
Lower(word) ==
    CASE word = "Wheat" -> "wheat"
      [] word = "Hectare" -> "hectare"
      [] OTHER -> word

\* location.title()
Title(keyword) ==
    CASE keyword = "punjab" -> "Punjab"
      [] keyword = "haryana" -> "Haryana"
      [] keyword = "up" -> "Up"
      [] OTHER -> keyword

\* words[j].replace('.', '').replace(',', '').isdigit()
IsDigit(word) == word = "5"

Range(seq) == {seq[i] : i \in 1..Len(seq)}

\* 'keyword in text.lower()' for a keyword without a space in it
KeywordIn(keyword, text) == \E i \in 1..Len(text) : keyword \in SubstringsOf(text[i])

\* crop_keywords, in the dict's order, with the keywords a Vocabulary word can hold
crop_keywords ==
    << [name |-> "rice", keywords |-> {"rice", "paddy", "basmati"}],
       [name |-> "wheat", keywords |-> {"wheat", "triticum"}],
       [name |-> "cotton", keywords |-> {"cotton", "kapas"}],
       [name |-> "corn", keywords |-> {"corn", "maize", "makka"}],
       [name |-> "soybean", keywords |-> {"soybean", "soya"}],
       [name |-> "sugarcane", keywords |-> {"sugarcane", "ganna"}],
       [name |-> "potato", keywords |-> {"potato", "aloo"}],
       [name |-> "onion", keywords |-> {"onion", "pyaaz"}],
       [name |-> "tomato", keywords |-> {"tomato", "tamatar"}] >>

\* location_keywords, in list order (the single-word ones)
location_keywords ==
    << "punjab", "haryana", "up", "bihar", "maharashtra", "gujarat", "rajasthan",
       "karnataka", "telangana", "kerala", "odisha" >>

size_patterns == {"acres", "acre", "hectare", "hectares", "bigha", "bighas"}

interest_keywords ==
    << [name |-> "organic farming", keywords |-> {"organic", "chemical-free"}],
       [name |-> "pest management", keywords |-> {"pest", "insect", "disease", "fungus"}],
       [name |-> "irrigation", keywords |-> {"irrigation", "water", "drip", "sprinkler"}],
       [name |-> "soil health", keywords |-> {"soil", "fertility", "nutrients"}],
       [name |-> "market prices", keywords |-> {"price", "market", "selling", "profit"}],
       [name |-> "weather", keywords |-> {"weather", "rainfall", "temperature", "climate"}] >>

method_keywords ==
    << [name |-> "organic", keywords |-> {"organic", "chemical-free", "bio"}],
       [name |-> "conventional", keywords |-> {"chemical", "fertilizer", "pesticide"}],
       [name |-> "integrated", keywords |-> {"ipm"}],
       [name |-> "precision", keywords |-> {"precision", "technology", "sensors"}] >>

\* the names of a keyword table whose keywords occur in one of the texts,
\* in table order
Mentioned(table, texts) ==
    LET hit(entry) == \E k \in entry.keywords : \E t \in texts : KeywordIn(k, t)
        hits == SelectSeq(table, hit)
    IN [i \in 1..Len(hits) |-> hits[i].name]

\* 'for x in items: if x not in lst: lst.append(x)'
RECURSIVE AppendNew(_, _)
AppendNew(lst, items) ==
    IF items = <<>> THEN lst
    ELSE AppendNew(IF Head(items) \in Range(lst) THEN lst ELSE Append(lst, Head(items)),
                   Tail(items))

\* the first location keyword found in the query or the response, titled;
\* <<>> when there is none
FirstLocation(query, response) ==
    LET found == SelectSeq(location_keywords,
                           LAMBDA l : KeywordIn(l, query) \/ KeywordIn(l, response))
    IN IF found = <<>> THEN <<>> ELSE <<Title(found[1])>>

IsSizeWord(w) == SubstringsOf(w) \cap size_patterns # {}

\* the farm size read off the text: at the first size word, the first number
\* among the three words before it, followed by the size word in lower case;
\* <<>> when nothing is found
FarmSizeMentioned(query, response) ==
    LET words == query \o response
        sized == {i \in 1..Len(words) : IsSizeWord(words[i])}
    IN IF sized = {} THEN <<>>
       ELSE LET i == CHOOSE k \in sized : \A m \in sized : k <= m
                lo == IF i - 3 > 1 THEN i - 3 ELSE 1
                nums == {j \in lo..(i - 1) : IsDigit(words[j])}
            IN IF nums = {} THEN <<>>
               ELSE LET j == CHOOSE k \in nums : \A m \in nums : k <= m
                    IN <<words[j], Lower(words[i])>>

\* extracted_context: the 'crops' value is absent, a list or a single value
NoCrops == [kind |-> "absent", items |-> <<>>]
CropList(items) == [kind |-> "list", items |-> items]
CropValue(crop) == [kind |-> "value", items |-> <<crop>>]
Context(crops, location, farm_size) ==
    [crops |-> crops, location |-> location, farm_size |-> farm_size]
NoContext == Context(NoCrops, <<>>, <<>>)

\* an extracted_context that also has the keys 'experience', 'interests' and
\* 'farming_methods'
WithOtherKeys(context, experience, interests, farming_methods) ==
    [crops |-> context.crops, location |-> context.location,
     farm_size |-> context.farm_size, experience |-> experience,
     interests |-> interests, farming_methods |-> farming_methods]

\* the profile a new ConversationMemoryManager starts with
EmptyProfile ==
    [name |-> <<>>, location |-> <<>>, crops |-> <<>>, farm_size |-> <<>>,
     experience |-> <<>>, interests |-> <<>>, concerns |-> <<>>,
     farming_methods |-> <<>>, equipment |-> <<>>, budget_range |-> <<>>]

\* the profile after the extracted_context crops are put in place of the list
ExtractFarmerInfo_ContextReplacesCrops(profile, query, response, extracted_context) ==
    [profile EXCEPT
        !.crops = IF extracted_context.crops.items # <<>>
                  THEN extracted_context.crops.items
                  ELSE AppendNew(@, Mentioned(crop_keywords, {query, response}))]

\* the profile after a scalar is overwritten by the latest mention
ExtractFarmerInfo_LastWriteWins(profile, query, response, extracted_context) ==
    [profile EXCEPT
        !.crops = AppendNew(@, Mentioned(crop_keywords, {query, response})),
        !.location = IF FirstLocation(query, response) # <<>>
                     THEN FirstLocation(query, response) ELSE @,
        !.farm_size = IF extracted_context.farm_size # <<>>
                      THEN extracted_context.farm_size ELSE @]

\* ConversationMemoryManager._extract_farmer_info: the profile afterwards
ExtractFarmerInfo(profile, query, response, extracted_context) ==
    LET crops1 == AppendNew(profile.crops, Mentioned(crop_keywords, {query, response}))
        loc == FirstLocation(query, response)
        location1 == IF loc # <<>> /\ profile.location = <<>> THEN loc ELSE profile.location
        size == FarmSizeMentioned(query, response)
        farm_size1 == IF size # <<>> /\ profile.farm_size = <<>> THEN size
                      ELSE profile.farm_size
        interests1 == AppendNew(profile.interests, Mentioned(interest_keywords, {query}))
        methods1 == AppendNew(profile.farming_methods,
                              Mentioned(method_keywords, {query, response}))
        \* 'if extracted_context:' and the loop over its items
        crops2 == AppendNew(crops1, extracted_context.crops.items)
        location2 == IF extracted_context.location # <<>> /\ location1 = <<>>
                     THEN extracted_context.location ELSE location1
        farm_size2 == IF extracted_context.farm_size # <<>> /\ farm_size1 = <<>>
                      THEN extracted_context.farm_size ELSE farm_size1
    IN [profile EXCEPT !.crops = crops2, !.location = location2,
                       !.farm_size = farm_size2, !.interests = interests1,
                       !.farming_methods = methods1]


\* how many times the stand-alone evaluator is called
MaxAdviceCalls == 2

----------------------------------------------------------------------------
VARIABLES
    pc,                     \* where create_validated_agricultural_plan stands
    calls,                  \* the gateway calls made so far, in order
    notices,                \* the progress notices printed so far, in order
    plan_result,
    evaluation_result,
    quality_score,
    refinement_count,
    current_plan,
    current_evaluation,
    refinement_result,
    new_evaluation_result,
    result,                 \* what create_validated_agricultural_plan returned
    advice_calls,           \* the gateway calls of evaluate_agricultural_advice
    advice_result           \* what evaluate_agricultural_advice returned last

VARIABLES
    conversation_history,   \* one ConversationMemoryManager: the detailed records
    summarized_context,     \* its running summary
    farmer_profile,         \* its accumulated profile
    adds,                   \* the add_conversation calls made on it, in order
    summarizations          \* the _summarize_conversations calls made by it

VARIABLES
    active_sessions,        \* EnhancedSessionManager: user_id -> session info
    memory_managers,        \* EnhancedSessionManager: session_id -> memory manager
    uuids,                  \* how many session ids uuid4 has handed out
    registry_log,           \* the calls made on the session manager, in order
    callers                 \* the get_or_create_session calls standing at their await

VARIABLES
    user_input,             \* GuardrailChecker: the input last checked
    evaluation,             \* the GuardrailEvaluation it was given
    risk_trace              \* risk_level after each category of that check

VARIABLES
    enriched,               \* the context the last read of the memory returned
    enriched_session,       \* the session_id that read asked for
    reads                   \* how many reads of the memory were made

VARIABLES
    query_run,              \* run_agent_async_with_memory: the query in hand
    queries                 \* how many queries were started

VARIABLES
    llm_request,            \* combined_callback: the contents of the request
    callback_response,      \* what combined_callback returned
    model_calls             \* how many requests reached the model

VARIABLES
    tool_result             \* what get_validated_farming_plan_tool returned

VARIABLES
    clock,                  \* datetime.now(), in seconds
    cache,                  \* the cache of each data-source processor
    lookups                 \* the lookups made on the processors, in order

memory == <<conversation_history, summarized_context, farmer_profile, adds,
            summarizations>>

registry == <<active_sessions, memory_managers, uuids, registry_log, callers>>

guardrail == <<user_input, evaluation, risk_trace>>

\* the components that stand apart from the planner, the memory manager and
\* the session manager
reading == <<enriched, enriched_session, reads>>

querying == <<query_run, queries>>

callback == <<llm_request, callback_response, model_calls>>

tooling == <<tool_result>>

caching == <<clock, cache, lookups>>

others == <<guardrail, reading, querying, callback, tooling, caching>>

vars == <<pc, calls, notices, plan_result, evaluation_result, quality_score,
          refinement_count, current_plan, current_evaluation,
          refinement_result, new_evaluation_result, result,
          advice_calls, advice_result, memory, registry, others>>

advice == <<advice_calls, advice_result>>

locals == <<plan_result, evaluation_result, quality_score, refinement_count,
            current_plan, current_evaluation, refinement_result,
            new_evaluation_result>>

Unset == [status |-> "unset"]

\* the handler letting the exception through
SequentialPlanningError_Propagates == Raised

\* the outermost 'except Exception' of create_validated_agricultural_plan
SequentialPlanningError == [status |-> "error", message |-> "Sequential planning error"]

Call(phase, prompt, response) == [phase |-> phase, prompt |-> prompt, response |-> response]

\* self._print_progress(phase, ...): the notices so far and the phases printed
\* now, each with the number of gateway calls made before it
Progress(printed, phases, made) ==
    printed \o [i \in 1..Len(phases) |-> [phase |-> phases[i], calls |-> made]]

\* a successful refinement going back to the loop test without an evaluation
AfterRefinement_SkipsEvaluation(r) ==
    IF r.status = "success" THEN "loop" ELSE "delivery"

\* if refinement_result["status"] == "success": ... else: break
AfterRefinement(r) ==
    IF r.status = "success" THEN "reevaluating" ELSE "delivery"

Init ==
    /\ pc = "idle"
    /\ calls = <<>>
    /\ notices = <<>>
    /\ plan_result = Unset
    /\ evaluation_result = Unset
    /\ quality_score = NumScore(0)
    /\ refinement_count = 0
    /\ current_plan = None
    /\ current_evaluation = None
    /\ refinement_result = Unset
    /\ new_evaluation_result = Unset
    /\ result = Unset
    /\ advice_calls = <<>>
    /\ advice_result = Unset
    /\ conversation_history = <<>>
    /\ summarized_context = <<>>
    /\ farmer_profile = EmptyProfile
    /\ adds = <<>>
    /\ summarizations = <<>>
    /\ active_sessions = <<>>
    /\ memory_managers = <<>>
    /\ uuids = 0
    /\ registry_log = <<>>
    /\ callers = <<>>
    /\ user_input = None
    /\ evaluation = Unset
    /\ risk_trace = <<>>
    /\ enriched = None
    /\ enriched_session = None
    /\ reads = 0
    /\ query_run = [at |-> "idle"]
    /\ queries = 0
    /\ llm_request = None
    /\ callback_response = Unset
    /\ model_calls = 0
    /\ tool_result = Unset
    /\ clock = 0
    /\ cache = [processor \in {"market", "weather", "sheets"} |-> None]
    /\ lookups = <<>>

\* the call of create_validated_agricultural_plan, up to the first await
Start ==
    /\ UNCHANGED <<memory, registry, others>>
    /\ pc = "idle"
    /\ pc' = "planning"
    /\ notices' = Progress(notices, <<"SEQUENTIAL PLANNING SYSTEM", "PHASE 1 - PLANNING">>,
                           Len(calls))
    /\ UNCHANGED <<calls, locals, result, advice>>

\* Phase 1: the planning completion arrives
Planning ==
    /\ UNCHANGED <<memory, registry, others>>
    /\ pc = "planning"
    /\ \E response \in Completions(PlanBodies, Len(calls) + 1) :
        LET r == _generate_agricultural_plan(response) IN
        /\ calls' = Append(calls, Call("planning", None, response))
        /\ plan_result' = r
        /\ IF r = Raised
           THEN /\ pc' = "done" /\ result' = SequentialPlanningError
                /\ notices' = Progress(notices, <<"ERROR">>, Len(calls'))
           ELSE IF r.status # "success"
           THEN /\ pc' = "done"
                /\ result' = [status |-> "error", phase |-> "planning"]
                /\ UNCHANGED notices
           ELSE /\ pc' = "reflecting" /\ UNCHANGED result
                /\ notices' = Progress(notices,
                                       <<"PHASE 1 - PLANNING", "PHASE 2 - REFLECTION">>,
                                       Len(calls'))
    /\ UNCHANGED <<evaluation_result, quality_score, refinement_count, current_plan,
                   current_evaluation, refinement_result, new_evaluation_result,
                   advice>>

\* Phase 2: the first evaluation completion arrives
Reflecting ==
    /\ UNCHANGED <<memory, registry, others>>
    /\ pc = "reflecting"
    /\ \E response \in Completions(EvalBodies, Len(calls) + 1) :
        LET plan_text == _extract_plan_text(plan_result.plan)
            r == _evaluate_plan_quality(response, quality_threshold) IN
        /\ calls' = Append(calls, Call("evaluation", plan_text, response))
        /\ evaluation_result' = r
        /\ IF r = Raised
           THEN /\ pc' = "done" /\ result' = SequentialPlanningError
                /\ notices' = Progress(notices, <<"ERROR">>, Len(calls'))
                /\ UNCHANGED <<quality_score, current_plan, current_evaluation>>
           ELSE IF r.status # "success"
           THEN /\ pc' = "done"
                /\ notices' = Progress(notices, <<"PHASE 2 - REFLECTION">>, Len(calls'))
                /\ result' = [status |-> "partial_success",
                              final_plan |-> plan_result.plan,
                              quality_check |-> "failed"]
                /\ UNCHANGED <<quality_score, current_plan, current_evaluation>>
           ELSE /\ pc' = "loop"
                /\ notices' = Progress(notices, <<"PHASE 2 - REFLECTION">>, Len(calls'))
                /\ quality_score' = GetScore(r.evaluation)
                /\ current_plan' = plan_result.plan
                /\ current_evaluation' = r.evaluation
                /\ UNCHANGED result
    /\ refinement_count' = IF pc' = "loop" THEN 0 ELSE refinement_count
    /\ UNCHANGED <<plan_result, refinement_result, new_evaluation_result, advice>>

\* Phase 3: the while condition; entering the body counts the attempt
LoopTest ==
    /\ UNCHANGED <<memory, registry, others>>
    /\ pc = "loop"
    /\ IF ShouldRefine(quality_score, refinement_count)
       THEN /\ pc' = "refining" /\ refinement_count' = refinement_count + 1
            /\ notices' = Progress(notices, <<"PHASE 3 - REFINEMENT">>, Len(calls))
       ELSE pc' = "delivery" /\ UNCHANGED <<refinement_count, notices>>
    /\ UNCHANGED <<calls, plan_result, evaluation_result, quality_score, current_plan,
                   current_evaluation, refinement_result, new_evaluation_result,
                   result, advice>>

\* Phase 3: the refinement completion arrives
Refining ==
    /\ UNCHANGED <<memory, registry, others>>
    /\ pc = "refining"
    /\ \E response \in Completions(PlanBodies, Len(calls) + 1) :
        LET r == _refine_plan(response) IN
        /\ calls' = Append(calls, Call("refinement", current_plan, response))
        /\ refinement_result' = r
        /\ IF r = Raised
           THEN /\ pc' = "done" /\ result' = SequentialPlanningError
                /\ notices' = Progress(notices, <<"ERROR">>, Len(calls'))
                /\ UNCHANGED current_plan
           ELSE IF r.status = "success"
           THEN /\ pc' = AfterRefinement(r) /\ current_plan' = r.refined_plan
                /\ UNCHANGED <<result, notices>>
           ELSE /\ pc' = AfterRefinement(r)
                /\ notices' = Progress(notices, <<"PHASE 3 - REFINEMENT">>, Len(calls'))
                /\ UNCHANGED <<current_plan, result>>
    /\ UNCHANGED <<plan_result, evaluation_result, quality_score, refinement_count,
                   current_evaluation, new_evaluation_result, advice>>

\* Phase 3: the completion of the refined plan's evaluation arrives
ReEvaluating ==
    /\ UNCHANGED <<memory, registry, others>>
    /\ pc = "reevaluating"
    /\ \E response \in Completions(EvalBodies, Len(calls) + 1) :
        LET refined_plan_text == _extract_plan_text(current_plan)
            r == _evaluate_plan_quality(response, quality_threshold) IN
        /\ calls' = Append(calls, Call("evaluation", refined_plan_text, response))
        /\ new_evaluation_result' = r
        /\ IF r = Raised
           THEN /\ pc' = "done" /\ result' = SequentialPlanningError
                /\ notices' = Progress(notices, <<"ERROR">>, Len(calls'))
                /\ UNCHANGED <<quality_score, current_evaluation>>
           ELSE IF r.status = "success"
           THEN /\ pc' = "loop"
                /\ notices' = Progress(notices, <<"PHASE 3 - REFINEMENT">>, Len(calls'))
                /\ quality_score' = GetScore(r.evaluation)
                /\ current_evaluation' = r.evaluation
                /\ UNCHANGED result
           ELSE pc' = "delivery"
                /\ UNCHANGED <<quality_score, current_evaluation, result, notices>>
    /\ UNCHANGED <<plan_result, evaluation_result, refinement_count, current_plan,
                   refinement_result, advice>>

\* Phase 4: the final result
Delivery ==
    /\ UNCHANGED <<memory, registry, others>>
    /\ pc = "delivery"
    /\ pc' = "done"
    /\ result' = [status |-> "success",
                  final_plan |-> current_plan,
                  quality_evaluation |-> current_evaluation,
                  quality_score |-> quality_score,
                  approval_status |-> FinalStatus(quality_score),
                  refinement_iterations |-> refinement_count]
    /\ notices' = Progress(notices, <<"PHASE 4 - DELIVERY">>, Len(calls))
    /\ UNCHANGED <<calls, locals, advice>>

\* ReflectionAgent.evaluate_agricultural_advice, called on its own
EvaluateAdvice ==
    /\ UNCHANGED <<memory, registry, others>>
    /\ Len(advice_calls) < MaxAdviceCalls
    /\ \E response \in Completions(EvalBodies, Len(advice_calls) + 1) :
        /\ advice_calls' = Append(advice_calls, Call("evaluation", None, response))
        /\ advice_result' = evaluate_agricultural_advice(response, quality_threshold)
    /\ UNCHANGED <<pc, calls, notices, locals, result>>

Next ==
    \/ Start
    \/ Planning
    \/ Reflecting
    \/ LoopTest
    \/ Refining
    \/ ReEvaluating
    \/ Delivery

Spec == Init /\ [][Next]_vars

\* the stand-alone evaluator, called any number of times up to the bound
NextAdvice == EvaluateAdvice

SpecAdvice == Init /\ [][NextAdvice]_vars

----------------------------------------------------------------------------
(* Reading the run back from the log of gateway calls.                     *)

CallsOf(phase) == {i \in 1..Len(calls) : calls[i].phase = phase}

\* the completion carried no text (GatewayFailure)
NoText(response) == response.kind = "none" \/ (response.kind = "text" /\ response.empty)

\* text arrived and the parser made nothing usable of it (ParseFailure)
Unparseable(response) == HasText(response) /\ ~Parsed(extract_and_parse_json(response))

\* the evaluation call i was answered by an object with an ordered score
EvalScore(i) == GetScore(extract_and_parse_json(calls[i].response))

EvalSucceeded(i) ==
    /\ calls[i].phase = "evaluation"
    /\ _evaluate_plan_quality(calls[i].response, quality_threshold) # Raised
    /\ _evaluate_plan_quality(calls[i].response, quality_threshold).status = "success"

LatestSuccessfulEval ==
    CHOOSE i \in CallsOf("evaluation") :
        /\ EvalSucceeded(i)
        /\ \A j \in CallsOf("evaluation") : EvalSucceeded(j) => j <= i

Returned == pc = "done"

\* the run went through Phase 4
Delivered == Returned /\ result.status = "success"

----------------------------------------------------------------------------
\* C1: the refinement loop body is entered at most max_refinement_iterations
\* times whatever the gateway returns: never more refinement calls than that,
\* and a reported refinement_iterations is in 0..max_refinement_iterations.
C1_RefinementBounded ==
    /\ refinement_count \in 0..max_refinement_iterations
    /\ Cardinality(CallsOf("refinement")) <= max_refinement_iterations
    /\ Delivered => result.refinement_iterations \in 0..max_refinement_iterations

C1_Witness ==
    /\ Delivered
    /\ result.refinement_iterations = max_refinement_iterations
    /\ Cardinality(CallsOf("refinement")) = max_refinement_iterations

\* C2: when the first evaluation parses with a score >= quality_threshold, no
\* refinement call is ever made, and the run returns refinement_iterations = 0
\* with final_plan the plan the Planning phase produced.
FirstEvalMeetsThreshold ==
    /\ Len(calls) >= 2
    /\ EvalSucceeded(2)
    /\ ScoreGE(EvalScore(2), quality_threshold)

C2_NoRefinementWhenFirstScoreMeets ==
    FirstEvalMeetsThreshold =>
        /\ CallsOf("refinement") = {}
        /\ Returned =>
            /\ result.status = "success"
            /\ result.refinement_iterations = 0
            /\ result.final_plan = extract_and_parse_json(calls[1].response)

C2_Witness == Returned /\ FirstEvalMeetsThreshold /\ EvalScore(2) = NumScore(75)

\* C3: when every call is answered with parseable output and every score,
\* the first and each re-evaluation, is below quality_threshold, the run makes
\* exactly max_refinement_iterations refinements and returns success,
\* conditionally_approved, refinement_iterations = max_refinement_iterations.
AllParsedAndLow ==
    /\ calls # <<>>
    /\ \A i \in 1..Len(calls) :
        CASE calls[i].phase = "planning" ->
                /\ _generate_agricultural_plan(calls[i].response) # Raised
                /\ _generate_agricultural_plan(calls[i].response).status = "success"
          [] calls[i].phase = "evaluation" ->
                EvalSucceeded(i) /\ ScoreLT(EvalScore(i), quality_threshold)
          [] OTHER ->
                /\ _refine_plan(calls[i].response) # Raised
                /\ _refine_plan(calls[i].response).status = "success"

C3_AllLowRunsAllIterations ==
    (Returned /\ AllParsedAndLow) =>
        /\ Cardinality(CallsOf("refinement")) = max_refinement_iterations
        /\ result.status = "success"
        /\ result.approval_status = "conditionally_approved"
        /\ result.refinement_iterations = max_refinement_iterations

\* the scenario 0.60, 0.70, 0.72 against 0.75 with two iterations
C3_Witness ==
    /\ Returned /\ AllParsedAndLow
    /\ Len(calls) = 6
    /\ EvalScore(2) = NumScore(60)
    /\ EvalScore(4) = NumScore(70)
    /\ EvalScore(6) = NumScore(72)
    /\ result.refinement_iterations = 2

\* C4: in a delivered result approval_status is "approved" exactly when the
\* reported quality_score >= quality_threshold and "conditionally_approved"
\* otherwise, and the reported score is that of the latest successful
\* evaluation alone.
C4_ApprovalFollowsLatestScore ==
    Delivered =>
        /\ (result.approval_status = "approved")
              <=> ScoreGE(result.quality_score, quality_threshold)
        /\ (result.approval_status = "conditionally_approved")
              <=> ~ScoreGE(result.quality_score, quality_threshold)
        /\ result.quality_score = EvalScore(LatestSuccessfulEval)

\* the latest score is lower than an earlier one, and is the one reported
C4_Witness ==
    /\ Delivered
    /\ Len(calls) >= 4
    /\ EvalScore(2) = NumScore(72)
    /\ EvalSucceeded(4)
    /\ EvalScore(4) = NumScore(60)
    /\ LatestSuccessfulEval = 4
    /\ result.quality_score = NumScore(60)

\* C5: a Planning completion with text that does not parse as a plan does not
\* abort the run: the text becomes the plan under the fallback key, the
\* Reflection phase evaluates that text, and the result has status success.
C5_UnparseablePlanContinues ==
    (Returned /\ Len(calls) >= 1 /\ Unparseable(calls[1].response)) =>
        /\ plan_result.plan = RawWrap("raw_plan", calls[1].response)
        /\ Len(calls) >= 2
        /\ calls[2].phase = "evaluation"
        /\ calls[2].prompt = _extract_plan_text(plan_result.plan)
        /\ result.status = "success"

\* C6: a Planning completion without text ends the run at once with
\* status error and phase planning, after exactly one gateway call.
C6_NoPlanTextIsFatal ==
    (Len(calls) >= 1 /\ NoText(calls[1].response)) =>
        /\ Returned
        /\ result = [status |-> "error", phase |-> "planning"]
        /\ Len(calls) = 1

C6_Witness ==
    /\ Returned
    /\ Len(calls) = 1
    /\ calls[1].response = NoResponse
    /\ result.status = "error"

\* C7: a Phase 2 evaluation completion without text gives status
\* partial_success with final_plan exactly the plan of the Planning phase,
\* and no refinement call.
C7_NoEvalTextKeepsPlan ==
    (Len(calls) >= 2 /\ NoText(calls[2].response)) =>
        /\ Returned
        /\ result.status = "partial_success"
        /\ result.final_plan = extract_and_parse_json(calls[1].response)
        /\ Len(calls) = 2

C7_Witness ==
    /\ Returned
    /\ Len(calls) = 2
    /\ calls[2].response = NoResponse
    /\ result.status = "partial_success"

\* C8: every returned result that carries final_plan also carries
\* approval_status, one of approved and conditionally_approved, together
\* with quality_score and refinement_iterations.
C8_PlanComesWithApproval ==
    (Returned /\ "final_plan" \in DOMAIN result) =>
        /\ {"approval_status", "quality_score", "refinement_iterations"}
              \subseteq DOMAIN result
        /\ result.approval_status \in {"approved", "conditionally_approved"}

\* C9: a Phase 2 evaluation whose text does not parse never ends the run
\* early: the raw-text evaluation stands in, the plan counts as below
\* threshold, the refinement loop runs and the result carries
\* approval_status and refinement_iterations.
C9_EvalParseFailureContinues ==
    (Returned /\ Len(calls) >= 2 /\ Unparseable(calls[2].response)) =>
        /\ Len(calls) >= 3
        /\ calls[3].phase = "refinement"
        /\ {"approval_status", "refinement_iterations"} \subseteq DOMAIN result

\* C10: for both evaluators an evaluation whose text does not parse is
\* reported partial_success with meets_threshold false, and meets_threshold
\* is true only for a parsed overall_quality_score >= quality_threshold.
EvaluatorContract(response, r) ==
    /\ Unparseable(response) =>
          r.status = "partial_success" /\ r.meets_threshold = FALSE
    /\ ("meets_threshold" \in DOMAIN r /\ r.meets_threshold) =>
          /\ Parsed(extract_and_parse_json(response))
          /\ ScoreGE(GetScore(extract_and_parse_json(response)), quality_threshold)

C10_ParseFailureBelowThreshold ==
    /\ advice_calls # <<>> =>
          EvaluatorContract(advice_calls[Len(advice_calls)].response, advice_result)
    /\ (Len(calls) >= 2 /\ evaluation_result # Raised) =>
          EvaluatorContract(calls[2].response, evaluation_result)
    /\ (Len(calls) >= 4 /\ new_evaluation_result \notin {Raised, Unset}) =>
          EvaluatorContract(calls[Len(calls) - (Len(calls) % 2)].response,
                            new_evaluation_result)

----------------------------------------------------------------------------
\* the refinement call i got no text, or text that is no plan
RefinementFailed(i) ==
    /\ calls[i].phase = "refinement"
    /\ NoText(calls[i].response) \/ Unparseable(calls[i].response)

\* the plan in hand when call i was issued: the latest planning or
\* refinement completion before it
PlanBefore(i) ==
    LET producers == {j \in 1..(i - 1) : calls[j].phase \in {"planning", "refinement"}}
        last == CHOOSE j \in producers : \A k \in producers : k <= j
    IN extract_and_parse_json(calls[last].response)

RefinementsBefore(i) == Cardinality({j \in CallsOf("refinement") : j < i})

\* C11 as stated: a failed refinement call ends the loop with no further
\* gateway call, final_plan is the plan held before the attempt, and the
\* reported refinement_iterations leaves the failed attempt out.
C11_FailedAttemptNotCounted ==
    \A i \in CallsOf("refinement") :
        RefinementFailed(i) =>
            /\ i = Len(calls)
            /\ Returned =>
                /\ result.status = "success"
                /\ result.final_plan = PlanBefore(i)
                /\ result.refinement_iterations = RefinementsBefore(i)

\* C11 amended: a failed refinement call ends the loop with no further
\* gateway call and final_plan is the plan held before the attempt; the
\* reported refinement_iterations counts the failed attempt as well.
C11_FailedAttemptStopsLoop ==
    \A i \in CallsOf("refinement") :
        RefinementFailed(i) =>
            /\ i = Len(calls)
            /\ pc \in {"delivery", "done"}
            /\ Returned =>
                /\ result.status = "success"
                /\ result.final_plan = PlanBefore(i)
                /\ result.refinement_iterations = RefinementsBefore(i) + 1

\* the second refinement fails after one completed refinement
C11_Witness ==
    /\ Returned
    /\ Len(calls) = 5
    /\ RefinementFailed(5)
    /\ result.final_plan = extract_and_parse_json(calls[3].response)
    /\ result.refinement_iterations = 2

\* C12: a completion without text during Refinement, or during a
\* re-evaluation inside the loop, is reported with status partial_success
\* and the plan in hand.
C12_LoopGatewayFailureIsPartial ==
    (Returned /\ \E i \in 3..Len(calls) : NoText(calls[i].response)) =>
        /\ result.status = "partial_success"
        /\ "final_plan" \in DOMAIN result

\* the helper answering call i let an exception out
CallRaised(i) ==
    CASE calls[i].phase = "planning" ->
            _generate_agricultural_plan(calls[i].response) = Raised
      [] calls[i].phase = "evaluation" ->
            _evaluate_plan_quality(calls[i].response, quality_threshold) = Raised
      [] OTHER -> _refine_plan(calls[i].response) = Raised

\* C13: no exception leaves create_validated_agricultural_plan: when a step
\* of any phase raises, the call has returned a result with status error.
C13_ExceptionsBecomeErrorResults ==
    /\ result.status # "raised"
    /\ \A i \in 1..Len(calls) :
          CallRaised(i) =>
              /\ i = Len(calls)
              /\ Returned
              /\ result.status = "error"

\* the last re-evaluation raises, after both refinements
C13_Witness ==
    /\ Returned
    /\ Len(calls) = 6
    /\ CallRaised(6)
    /\ result.status = "error"

----------------------------------------------------------------------------
(* The sliding window and the running summary.  A summary string is the    *)
(* sequence of its pieces: whitespace, the "\n\n" separator, model text, or *)
(* one of the two fallback sentences.                                      *)

Space == [t |-> "space"]
Separator == [t |-> "\n\n"]
Words == [t |-> "words"]
IsWhitespace(piece) == piece.t \in {"space", "\n\n"}

\* the summarization completion carrying these pieces as its text
SummaryText(pieces) == [kind |-> "text", empty |-> pieces = <<>>, pieces |-> pieces]

\* what the summarization gateway may hand back
SummaryCompletions ==
    {Fault, NoResponse,
     SummaryText(<<>>),
     SummaryText(<<Space>>),
     SummaryText(<<Space, Words, Space>>)}

\* str.strip()
RECURSIVE LStrip(_)
LStrip(pieces) ==
    IF pieces # <<>> /\ IsWhitespace(Head(pieces)) THEN LStrip(Tail(pieces)) ELSE pieces

RECURSIVE RStrip(_)
RStrip(pieces) ==
    IF pieces # <<>> /\ IsWhitespace(pieces[Len(pieces)])
    THEN RStrip(SubSeq(pieces, 1, Len(pieces) - 1)) ELSE pieces

Strip(pieces) == RStrip(LStrip(pieces))

\* the topic tally of the fallback summary
FallbackTopics(conversations) ==
    LET has(k) == \E i \in 1..Len(conversations) : KeywordIn(k, conversations[i].query)
    IN (IF has("pest") THEN {"pest management"} ELSE {})
       \cup (IF has("rice") \/ has("wheat") THEN {"crop cultivation"} ELSE {})
       \cup (IF has("weather") THEN {"weather planning"} ELSE {})
       \cup (IF has("price") THEN {"market analysis"} ELSE {})

\* a fallback sentence that leaves the topics out
FallbackSummary_NoTally(conversations) ==
    << [t |-> "fallback", topics |-> {}, n |-> Len(conversations)] >>

\* "Farmer engaged in agricultural discussions covering ... over n conversations."
FallbackSummary(conversations) ==
    << [t |-> "fallback", topics |-> FallbackTopics(conversations),
        n |-> Len(conversations)] >>

\* "Previous farming conversations covered ... over n exchanges."
ExceptionSummary(conversations) ==
    << [t |-> "exception", n |-> Len(conversations)] >>

\* summarization that returns the model's text as it came
SummarizeConversations_NoStrip(conversations, response) ==
    IF conversations = <<>> THEN <<>>
    ELSE IF response.kind = "raise" THEN ExceptionSummary(conversations)
    ELSE IF HasText(response) THEN response.pieces
    ELSE FallbackSummary(conversations)

\* ConversationMemoryManager._summarize_conversations, given the completion
SummarizeConversations(conversations, response) ==
    IF conversations = <<>> THEN <<>>
    ELSE IF response.kind = "raise" THEN ExceptionSummary(conversations)
    ELSE IF HasText(response) THEN Strip(response.pieces)
    ELSE FallbackSummary(conversations)

\* a window that is trimmed one record late
Overflowing_OneLate(history) == Len(history) > max_detailed_conversations + 1

\* 'len(self.conversation_history) > self.max_detailed_conversations'
Overflowing(history) == Len(history) > max_detailed_conversations

\* conversation_history[:-max_detailed_conversations]
Oldest(history) == SubSeq(history, 1, Len(history) - max_detailed_conversations)

\* a window that keeps the oldest records
Newest_KeepsOldest(history) == SubSeq(history, 1, max_detailed_conversations)

\* conversation_history[-max_detailed_conversations:]
Newest(history) ==
    SubSeq(history, Len(history) - max_detailed_conversations + 1, Len(history))

\* a summary that is replaced by the new one
JoinSummary_Replaces(context, new_summary) == new_summary

\* the running summary after new_summary is added to it
JoinSummary(context, new_summary) ==
    IF context # <<>> THEN context \o <<Separator>> \o new_summary ELSE new_summary

Manager(history, context, profile) ==
    [conversation_history |-> history, summarized_context |-> context,
     farmer_profile |-> profile]

\* a new ConversationMemoryManager
NewManager == Manager(<<>>, <<>>, EmptyProfile)

\* ConversationMemoryManager.add_conversation: the manager afterwards.
\* input is the query, the response and the extracted_context; now is the
\* timestamp; response is what the summarization gateway returns if asked
add_conversation(m, now, input, response) ==
    LET conversation_record ==
            [timestamp |-> now, query |-> input.query, response |-> input.response,
             extracted_info |-> input.extracted_context]
        profile == ExtractFarmerInfo(m.farmer_profile, input.query, input.response,
                                     input.extracted_context)
        history == Append(m.conversation_history, conversation_record)
    IN IF Overflowing(history)
       THEN Manager(Newest(history),
                    JoinSummary(m.summarized_context,
                                SummarizeConversations(Oldest(history), response)),
                    profile)
       ELSE Manager(history, m.summarized_context, profile)

\* the records add_conversation hands to _summarize_conversations; <<>> when
\* it does not call it
Summarized(m, now, input) ==
    LET history == Append(m.conversation_history,
                          [timestamp |-> now, query |-> input.query,
                           response |-> input.response,
                           extracted_info |-> input.extracted_context])
    IN IF Overflowing(history) THEN Oldest(history) ELSE <<>>

Input(query, response, extracted_context) ==
    [query |-> query, response |-> response, extracted_context |-> extracted_context]

\* how many add_conversation calls a window run makes
MaxAdds == 10

\* how many add_conversation calls a profile run makes
MaxProfileAdds == 3

\* the conversations of a window run
WindowInputs ==
    {Input(<<"pest">>, <<"farm">>, NoContext),
     Input(<<"price", "weather">>, <<"farm">>, NoContext)}

\* the conversations of a profile run
ProfileInputs ==
    {Input(<<"price">>, <<"farm">>, NoContext),
     Input(<<"farm">>, <<"Wheat", "paddy">>, Context(CropList(<<"wheat", "millet", "millet">>), <<>>, <<>>)),
     Input(<<"farm">>, <<"farm">>, Context(CropValue("rice"), <<"Kerala">>, <<"2", "bigha">>)),
     Input(<<"5", "acres", "punjab">>, <<"supply">>, NoContext),
     Input(<<"haryana", "farm">>, <<"5", "farm", "farm", "Hectare">>, Context(NoCrops, <<"Bihar">>, <<>>)),
     Input(<<"supply", "pest">>, <<"5", "farm", "farm", "farm", "acres">>,
           Context(CropList(<<>>), <<>>, <<"10", "acres">>)),
     Input(<<"farm">>, <<"farm">>,
           WithOtherKeys(NoContext, <<"beginner">>, <<"dairy">>, <<"no-till">>))}

\* one add_conversation call on the manager
AddConversation(input, response) ==
    LET m == Manager(conversation_history, summarized_context, farmer_profile)
        now == Len(adds) + 1
    IN \E after \in {add_conversation(m, now, input, response)},
          handed \in {Summarized(m, now, input)} :
       /\ conversation_history' = after.conversation_history
       /\ summarized_context' = after.summarized_context
       /\ farmer_profile' = after.farmer_profile
       /\ adds' = Append(adds, input)
       /\ summarizations' =
            IF handed = <<>> THEN summarizations
            ELSE Append(summarizations,
                        [at |-> now, conversations |-> handed, response |-> response])
       /\ UNCHANGED <<pc, calls, notices, locals, result, advice, registry, others>>

\* a session of conversations that fills and overflows the window
NextMemory ==
    \E input \in WindowInputs, response \in SummaryCompletions :
        Len(adds) < MaxAdds /\ AddConversation(input, response)

SpecMemory == Init /\ [][NextMemory]_vars

\* a few conversations that carry profile information
NextProfile ==
    \E input \in ProfileInputs :
        Len(adds) < MaxProfileAdds /\ AddConversation(input, NoResponse)

SpecProfile == Init /\ [][NextProfile]_vars

----------------------------------------------------------------------------
(* Reading the manager's past from the logs of its calls.                  *)

\* the timestamps of the records still kept in detail
Kept == {conversation_history[i].timestamp : i \in 1..Len(conversation_history)}

\* the timestamps of the records no longer in conversation_history
Removed == (1..Len(adds)) \ Kept

\* the timestamps of the records handed to summarization call k
HandedTo(k) ==
    {summarizations[k].conversations[i].timestamp :
        i \in 1..Len(summarizations[k].conversations)}

IsPrefix(a, b) == Len(a) <= Len(b) /\ SubSeq(b, 1, Len(a)) = a

\* C14: after every add_conversation, whatever the summarizer answered, the
\* detailed history holds at most max_detailed_conversations records.
C14_HistoryBounded == Len(conversation_history) <= max_detailed_conversations

\* ten conversations, two evictions, one with a raising summarizer and one
\* with an empty text
C14_Witness ==
    /\ Len(adds) = 10
    /\ Len(conversation_history) = max_detailed_conversations
    /\ Len(summarizations) = 2
    /\ summarizations[1].response = Fault
    /\ summarizations[2].response = SummaryText(<<>>)

\* C15: no record leaves conversation_history unaccounted for: every removed
\* record was handed to the summarization of the call that removed it, and
\* once records are removed the running summary is not empty, whatever the
\* summarizer returned.
C15_RemovedRecordsAreSummarized ==
    /\ \A t \in Removed :
          \E k \in 1..Len(summarizations) :
              /\ t \in HandedTo(k)
              /\ summarizations[k].at = t + max_detailed_conversations
    /\ \A k \in 1..Len(summarizations) : HandedTo(k) \subseteq Removed
    /\ Removed # {} => summarized_context # <<>>

\* C16: the running summary only grows: each step leaves the old summary as
\* a prefix of the new one, and the summary changes only in a call that
\* hands records to summarization.
C16_SummaryOnlyGrows ==
    [][/\ IsPrefix(summarized_context, summarized_context')
       /\ summarized_context' # summarized_context =>
              Len(summarizations') = Len(summarizations) + 1]_vars

\* the summary has been extended by a second eviction
C16_Witness ==
    /\ Len(summarizations) = 2
    /\ \E i \in 1..Len(summarized_context) :
          /\ summarized_context[i] = Separator
          /\ i > 1
          /\ i < Len(summarized_context)

\* the crops a call brings: those found by keyword in its query and
\* response, and those of its extracted_context
CropsOfCall(input) ==
    Range(Mentioned(crop_keywords, {input.query, input.response}))
        \cup Range(input.extracted_context.crops.items)

\* C17: after any number of add_conversation calls the profile's crops are,
\* with no duplicate, exactly the union of the crops found by keyword and
\* the crops supplied in extracted_context over all the calls.
C17_CropsAreTheUnion ==
    /\ Range(farmer_profile.crops) = UNION {CropsOfCall(adds[i]) : i \in 1..Len(adds)}
    /\ Cardinality(Range(farmer_profile.crops)) = Len(farmer_profile.crops)

\* keyword crops and context crops, some of them repeated, over three calls
C17_Witness ==
    /\ Len(adds) = 3
    /\ Range(farmer_profile.crops) = {"rice", "wheat", "millet"}
    /\ \E i \in 1..3 : adds[i].extracted_context.crops = CropList(<<"wheat", "millet", "millet">>)
    /\ \E i \in 1..3 : adds[i].extracted_context.crops = CropValue("rice")
    /\ \E i \in 1..3 : adds[i].query = <<"price">>

\* C18: once location, or farm_size, holds a value, no later
\* add_conversation changes it.
C18_ScalarsFirstWriteWins ==
    [][/\ farmer_profile.location # <<>> =>
              farmer_profile'.location = farmer_profile.location
       /\ farmer_profile.farm_size # <<>> =>
              farmer_profile'.farm_size = farmer_profile.farm_size]_vars

\* the call last made offered another location and another farm size
OffersOther(input) ==
    /\ LET loc == FirstLocation(input.query, input.response) IN
          \/ loc # <<>> /\ loc # farmer_profile.location
          \/ /\ input.extracted_context.location # <<>>
             /\ input.extracted_context.location # farmer_profile.location
    /\ LET size == FarmSizeMentioned(input.query, input.response) IN
          \/ size # <<>> /\ size # farmer_profile.farm_size
          \/ /\ input.extracted_context.farm_size # <<>>
             /\ input.extracted_context.farm_size # farmer_profile.farm_size

C18_Witness ==
    /\ Len(adds) >= 2
    /\ adds[1] = Input(<<"5", "acres", "punjab">>, <<"supply">>, NoContext)
    /\ farmer_profile.location = <<"Punjab">>
    /\ farmer_profile.farm_size = <<"5", "acres">>
    /\ OffersOther(adds[Len(adds)])

----------------------------------------------------------------------------
(* EnhancedSessionManager: active_sessions maps a user_id to its session    *)
(* info, memory_managers maps a session_id to its ConversationMemoryManager. *)
(* Session ids are the numbers of the uuid4 draws, which never repeat.  In   *)
(* this specification the calls run one after another, each to its end.     *)

Users == {"farmer_a", "farmer_b"}

\* how many calls a registry run makes
MaxRegistryCalls == 5

\* d[k] = v
Put(d, k, v) == [x \in DOMAIN d \cup {k} |-> IF x = k THEN v ELSE d[x]]

\* del d[k]
Del(d, k) == [x \in DOMAIN d \ {k} |-> d[x]]

\* the registry and what a call hands back
Registry(sessions, managers, drawn, returned) ==
    [active_sessions |-> sessions, memory_managers |-> managers, uuids |-> drawn,
     returned |-> returned]

\* the (session, memory_manager) pair a call returns; constructed tells
\* whether the manager was built by this call
SessionAndManager(session_id, constructed, manager) ==
    [session_id |-> session_id, constructed |-> constructed,
     memory_manager |-> manager]

\* get_or_create_session that stores the session before creating it
get_or_create_session_StoresFirst(sessions, managers, drawn, user_id, created) ==
    IF user_id \in DOMAIN sessions
    THEN Registry(sessions, managers, drawn,
                  SessionAndManager(sessions[user_id].session_id, FALSE,
                                    managers[sessions[user_id].session_id]))
    ELSE Registry(Put(sessions, user_id, [session_id |-> drawn + 1]),
                  Put(managers, drawn + 1, NewManager), drawn + 1,
                  IF created THEN SessionAndManager(drawn + 1, TRUE, NewManager)
                  ELSE Raised)

\* get_or_create_session that never looks the user up
get_or_create_session_AlwaysCreates(sessions, managers, drawn, user_id, created) ==
    IF created
    THEN Registry(Put(sessions, user_id, [session_id |-> drawn + 1]),
                  Put(managers, drawn + 1, NewManager), drawn + 1,
                  SessionAndManager(drawn + 1, TRUE, NewManager))
    ELSE Registry(sessions, managers, drawn + 1, Raised)

\* EnhancedSessionManager.get_or_create_session; created tells whether
\* create_session returns (TRUE) or raises (FALSE)
get_or_create_session(sessions, managers, drawn, user_id, created) ==
    IF user_id \in DOMAIN sessions
    THEN LET session_id == sessions[user_id].session_id
         IN IF session_id \in DOMAIN managers
            THEN Registry(sessions, managers, drawn,
                          SessionAndManager(session_id, FALSE, managers[session_id]))
            ELSE Registry(sessions, managers, drawn, Raised)
    ELSE LET session_id == drawn + 1
         IN IF created
            THEN Registry(Put(sessions, user_id, [session_id |-> session_id]),
                          Put(managers, session_id, NewManager), session_id,
                          SessionAndManager(session_id, TRUE, NewManager))
            ELSE Registry(sessions, managers, session_id, Raised)

\* add_conversation_to_memory that reaches every manager
add_conversation_to_memory_EveryManager(managers, session_id, now, input, response) ==
    [s \in DOMAIN managers |-> add_conversation(managers[s], now, input, response)]

\* EnhancedSessionManager.add_conversation_to_memory: the managers afterwards
add_conversation_to_memory(managers, session_id, now, input, response) ==
    IF session_id \in DOMAIN managers
    THEN [managers EXCEPT
            ![session_id] = add_conversation(managers[session_id], now, input, response)]
    ELSE managers

\* clear_session that leaves the memory manager behind
clear_session_KeepsManager(sessions, managers, drawn, user_id) ==
    IF user_id \in DOMAIN sessions
    THEN Registry(Del(sessions, user_id), managers, drawn, None)
    ELSE Registry(sessions, managers, drawn, None)

\* EnhancedSessionManager.clear_session
clear_session(sessions, managers, drawn, user_id) ==
    IF user_id \in DOMAIN sessions
    THEN LET session_id == sessions[user_id].session_id
         IN Registry(Del(sessions, user_id),
                     IF session_id \in DOMAIN managers
                     THEN Del(managers, session_id) ELSE managers,
                     drawn, None)
    ELSE Registry(sessions, managers, drawn, None)

\* the conversation a registry run adds
RegistryInputs == {Input(<<"price", "weather">>, <<"farm">>, NoContext)}

GetOrCreateSession(user_id, created) ==
    \E after \in {get_or_create_session(active_sessions, memory_managers, uuids,
                                        user_id, created)} :
       /\ active_sessions' = after.active_sessions
       /\ memory_managers' = after.memory_managers
       /\ uuids' = after.uuids
       /\ UNCHANGED callers
       /\ registry_log' =
            Append(registry_log,
                   [op |-> "get_or_create_session", user_id |-> user_id,
                    returned |-> after.returned])
       /\ UNCHANGED <<pc, calls, notices, locals, result, advice, memory, others>>

AddConversationToMemory(session_id, input, response) ==
    /\ memory_managers' =
         add_conversation_to_memory(memory_managers, session_id,
                                    Len(registry_log) + 1, input, response)
    /\ registry_log' =
         Append(registry_log,
                [op |-> "add_conversation_to_memory", session_id |-> session_id,
                 returned |-> None])
    /\ UNCHANGED <<active_sessions, uuids, callers>>
    /\ UNCHANGED <<pc, calls, notices, locals, result, advice, memory, others>>

ClearSession(user_id) ==
    \E after \in {clear_session(active_sessions, memory_managers, uuids, user_id)} :
       /\ active_sessions' = after.active_sessions
       /\ memory_managers' = after.memory_managers
       /\ uuids' = after.uuids
       /\ UNCHANGED callers
       /\ registry_log' =
            Append(registry_log,
                   [op |-> "clear_session", user_id |-> user_id,
                    returned |-> after.returned])
       /\ UNCHANGED <<pc, calls, notices, locals, result, advice, memory, others>>

NextRegistry ==
    /\ Len(registry_log) < MaxRegistryCalls
    /\ \/ \E user_id \in Users, created \in BOOLEAN :
             GetOrCreateSession(user_id, created)
       \/ \E session_id \in 1..uuids, input \in RegistryInputs :
             AddConversationToMemory(session_id, input, NoResponse)
       \/ \E user_id \in Users : ClearSession(user_id)

SpecRegistry == Init /\ [][NextRegistry]_vars

----------------------------------------------------------------------------
(* Reading the registry's past from the log of its calls.                  *)

\* call i was a get_or_create_session that returned its pair
GotSession(i) ==
    /\ registry_log[i].op = "get_or_create_session"
    /\ registry_log[i].returned # Raised

\* call i was clear_session(user_id)
Cleared(i, user_id) ==
    /\ registry_log[i].op = "clear_session"
    /\ registry_log[i].user_id = user_id

\* the add_conversation_to_memory calls on session_id among the first j calls
AddsOn(session_id, j) ==
    {k \in 1..j : /\ registry_log[k].op = "add_conversation_to_memory"
                  /\ registry_log[k].session_id = session_id}

\* this step is a call of op
Calls(op) ==
    /\ Len(registry_log') = Len(registry_log) + 1
    /\ registry_log'[Len(registry_log')].op = op

\* C19: a second get_or_create_session for a user, with no clear_session for
\* that user in between, returns the session_id of the first and the very
\* manager of the first, holding what was added to it since; calls for two
\* different users return different session_ids; and an
\* add_conversation_to_memory on one session leaves every other session's
\* manager and the session table as they were.
C19_OneSessionPerUser ==
    /\ [](\A i, j \in 1..Len(registry_log) :
            (i < j /\ GotSession(i) /\ GotSession(j)) =>
                LET first == registry_log[i]
                    again == registry_log[j]
                IN /\ ( /\ first.user_id = again.user_id
                        /\ \A k \in (i + 1)..(j - 1) : ~Cleared(k, first.user_id) ) =>
                          /\ again.returned.session_id = first.returned.session_id
                          /\ ~again.returned.constructed
                          /\ Len(again.returned.memory_manager.conversation_history)
                                = Cardinality(AddsOn(first.returned.session_id, j))
                   /\ first.user_id # again.user_id =>
                          again.returned.session_id # first.returned.session_id)
    /\ [][Calls("add_conversation_to_memory") =>
            /\ active_sessions' = active_sessions
            /\ DOMAIN memory_managers' = DOMAIN memory_managers
            /\ \A s \in DOMAIN memory_managers :
                  s # registry_log'[Len(registry_log')].session_id =>
                      memory_managers'[s] = memory_managers[s]]_vars

\* two users hold sessions, one has a conversation in memory and has asked
\* for its session again, the other's manager is still empty
C19_Witness ==
    \E i, k, j \in 1..Len(registry_log) :
       /\ i < k
       /\ k < j
       /\ GotSession(i)
       /\ GotSession(j)
       /\ registry_log[i].user_id = "farmer_a"
       /\ registry_log[j].user_id = "farmer_a"
       /\ registry_log[i].returned.constructed
       /\ k \in AddsOn(registry_log[i].returned.session_id, j)
       /\ registry_log[j].returned.session_id = registry_log[i].returned.session_id
       /\ Len(registry_log[j].returned.memory_manager.conversation_history) = 1
       /\ "farmer_b" \in DOMAIN active_sessions
       /\ memory_managers[active_sessions["farmer_b"].session_id] = NewManager
       /\ memory_managers[active_sessions["farmer_a"].session_id] # NewManager

\* C20: clear_session(user_id) takes the user's entry out of active_sessions
\* and the session's manager out of memory_managers and leaves the entries
\* of every other user as they were; for a user with no session it changes
\* nothing; and the next get_or_create_session for a cleared user returns a
\* session_id never returned before, with a new, empty manager.
C20_ClearSessionFrame ==
    /\ [][Calls("clear_session") =>
            LET user_id == registry_log'[Len(registry_log')].user_id
            IN IF user_id \in DOMAIN active_sessions
               THEN /\ user_id \notin DOMAIN active_sessions'
                    /\ active_sessions[user_id].session_id \notin DOMAIN memory_managers'
                    /\ DOMAIN active_sessions' = DOMAIN active_sessions \ {user_id}
                    /\ DOMAIN memory_managers' =
                          DOMAIN memory_managers \ {active_sessions[user_id].session_id}
                    /\ \A other \in DOMAIN active_sessions' :
                          /\ active_sessions'[other] = active_sessions[other]
                          /\ memory_managers'[active_sessions[other].session_id]
                                = memory_managers[active_sessions[other].session_id]
               ELSE /\ active_sessions' = active_sessions
                    /\ memory_managers' = memory_managers]_vars
    /\ [](\A c, j \in 1..Len(registry_log) :
            ( /\ c < j
              /\ GotSession(j)
              /\ Cleared(c, registry_log[j].user_id)
              /\ \A k \in (c + 1)..(j - 1) :
                    ~(GotSession(k) /\ registry_log[k].user_id = registry_log[j].user_id) ) =>
                /\ registry_log[j].returned.constructed
                /\ registry_log[j].returned.memory_manager = NewManager
                /\ \A i \in 1..(j - 1) :
                      GotSession(i) =>
                          registry_log[i].returned.session_id
                              # registry_log[j].returned.session_id)

\* a user with a conversation in memory was cleared while another user held
\* a session, and then got a new session with an empty manager
C20_Witness ==
    \E i, a, c, j \in 1..Len(registry_log) :
       /\ i < a
       /\ a < c
       /\ c < j
       /\ GotSession(i)
       /\ registry_log[i].user_id = "farmer_a"
       /\ a \in AddsOn(registry_log[i].returned.session_id, c)
       /\ Cleared(c, "farmer_a")
       /\ GotSession(j)
       /\ registry_log[j].user_id = "farmer_a"
       /\ registry_log[i].returned.session_id \notin DOMAIN memory_managers
       /\ active_sessions["farmer_a"].session_id = registry_log[j].returned.session_id
       /\ memory_managers[registry_log[j].returned.session_id] = NewManager
       /\ "farmer_b" \in DOMAIN active_sessions
       /\ active_sessions["farmer_b"].session_id \in DOMAIN memory_managers

----------------------------------------------------------------------------
(* get_or_create_session under asyncio.  The coroutines of one event loop   *)
(* run one at a time and change hands only at an await, so a call is two    *)
(* steps: from its start to 'await create_session', and from the settling   *)
(* of that await to its return.  callers maps a task standing at the await  *)
(* to the user_id and session_id it holds.                                  *)

Tasks == {"task_1", "task_2"}

\* how many steps an interleaved run takes
MaxInterleavedSteps == 6

\* the insertion that forgets the other users' entries
StoreSession_Replaces(sessions, user_id, session_id) ==
    [u \in {user_id} |-> [session_id |-> session_id]]

\* self.active_sessions[user_id] = {'session': ..., 'session_id': ..., ...}
StoreSession(sessions, user_id, session_id) ==
    Put(sessions, user_id, [session_id |-> session_id])

\* get_or_create_session from its start to its first await, or to its
\* return when the user is known
BeginGetOrCreate(task, user_id) ==
    /\ task \notin DOMAIN callers
    /\ IF user_id \in DOMAIN active_sessions
       THEN \E after \in {get_or_create_session(active_sessions, memory_managers,
                                                uuids, user_id, TRUE)} :
               /\ registry_log' =
                    Append(registry_log,
                           [op |-> "get_or_create_session", task |-> task,
                            user_id |-> user_id, returned |-> after.returned])
               /\ UNCHANGED <<active_sessions, memory_managers, uuids, callers>>
       ELSE /\ uuids' = uuids + 1
            /\ callers' = Put(callers, task,
                              [user_id |-> user_id, session_id |-> uuids + 1])
            /\ registry_log' =
                 Append(registry_log,
                        [op |-> "await create_session", task |-> task,
                         user_id |-> user_id, session_id |-> uuids + 1])
            /\ UNCHANGED <<active_sessions, memory_managers>>
    /\ UNCHANGED <<pc, calls, notices, locals, result, advice, memory, others>>

\* get_or_create_session from the settling of create_session to its end;
\* created tells whether create_session returned (TRUE) or raised (FALSE)
CompleteGetOrCreate(task, created) ==
    /\ task \in DOMAIN callers
    /\ LET user_id == callers[task].user_id
           session_id == callers[task].session_id
       IN IF created
          THEN /\ active_sessions' = StoreSession(active_sessions, user_id, session_id)
               /\ memory_managers' = Put(memory_managers, session_id, NewManager)
               /\ registry_log' =
                    Append(registry_log,
                           [op |-> "get_or_create_session", task |-> task,
                            user_id |-> user_id,
                            returned |-> SessionAndManager(session_id, TRUE, NewManager)])
          ELSE /\ registry_log' =
                    Append(registry_log,
                           [op |-> "get_or_create_session", task |-> task,
                            user_id |-> user_id, returned |-> Raised])
               /\ UNCHANGED <<active_sessions, memory_managers>>
    /\ callers' = Del(callers, task)
    /\ UNCHANGED uuids
    /\ UNCHANGED <<pc, calls, notices, locals, result, advice, memory, others>>

NextInterleaved ==
    /\ Len(registry_log) < MaxInterleavedSteps
    /\ \/ \E task \in Tasks, user_id \in Users : BeginGetOrCreate(task, user_id)
       \/ \E task \in Tasks, created \in BOOLEAN : CompleteGetOrCreate(task, created)

SpecInterleaved == Init /\ [][NextInterleaved]_vars

\* step i is a call reaching 'await create_session' for user_id
Awaited(i, user_id) ==
    /\ registry_log[i].op = "await create_session"
    /\ registry_log[i].user_id = user_id

\* every memory manager belongs to the session of some user
EveryManagerOwned ==
    \A session_id \in DOMAIN memory_managers :
        \E user_id \in DOMAIN active_sessions :
            active_sessions[user_id].session_id = session_id

\* C21: also when get_or_create_session calls for one new user interleave at
\* the awaited create_session, every caller of that user is handed the same
\* session_id, and no manager stays in memory_managers without a session
\* that owns it.
C21_OneManagerUnderInterleaving ==
    /\ \A i, j \in 1..Len(registry_log) :
          ( /\ GotSession(i)
            /\ GotSession(j)
            /\ registry_log[i].user_id = registry_log[j].user_id ) =>
              registry_log[i].returned.session_id = registry_log[j].returned.session_id
    /\ EveryManagerOwned

\* the session_id of the last session stored for user_id
LastStored(user_id) ==
    LET stored == {i \in 1..Len(registry_log) :
                      /\ GotSession(i)
                      /\ registry_log[i].user_id = user_id
                      /\ registry_log[i].returned.constructed}
    IN registry_log[CHOOSE i \in stored : \A k \in stored : k <= i].returned.session_id

\* C22: calls for different users, however they interleave at the awaited
\* create_session, each end with their own entries: a user whose call
\* returned is in active_sessions with the session_id last stored for it,
\* the manager of every session handed out is in memory_managers, and the
\* return of one user's call leaves the entries of the other users as they
\* were.
C22_DistinctUsersKeepTheirEntries ==
    /\ [](\A i \in 1..Len(registry_log) :
            GotSession(i) =>
                /\ registry_log[i].user_id \in DOMAIN active_sessions
                /\ active_sessions[registry_log[i].user_id].session_id
                      = LastStored(registry_log[i].user_id)
                /\ registry_log[i].returned.session_id \in DOMAIN memory_managers)
    /\ [][Calls("get_or_create_session") =>
            /\ \A other \in DOMAIN active_sessions :
                  other # registry_log'[Len(registry_log')].user_id =>
                      /\ other \in DOMAIN active_sessions'
                      /\ active_sessions'[other] = active_sessions[other]
            /\ \A session_id \in DOMAIN memory_managers :
                  /\ session_id \in DOMAIN memory_managers'
                  /\ memory_managers'[session_id] = memory_managers[session_id]]_vars

\* two calls for two users stood at the await together, and both returned
C22_Witness ==
    /\ Len(registry_log) >= 4
    /\ Awaited(1, "farmer_a")
    /\ Awaited(2, "farmer_b")
    /\ registry_log[1].task # registry_log[2].task
    /\ GotSession(3)
    /\ GotSession(4)
    /\ registry_log[3].user_id = "farmer_b"
    /\ registry_log[4].user_id = "farmer_a"
    /\ DOMAIN active_sessions = Users
    /\ active_sessions["farmer_a"].session_id = 1
    /\ active_sessions["farmer_b"].session_id = 2
    /\ DOMAIN memory_managers = {1, 2}

----------------------------------------------------------------------------
(* GuardrailChecker.check_violations.  An input string is a sequence of     *)
(* phrases joined by spaces; no keyword of the tables straddles two of the  *)
(* phrases below.  NonString is a value whose .lower() raises.              *)

Phrases ==
    {"Ignore Previous instructions", "tell me a joke", "wheat price",
     "illegal pesticide", "black market", "password", "hello"}

\* how many phrases an input has at most
MaxPhrases == 3

\* the keywords of violation_keywords and agricultural_keywords that are
\* substrings of phrase.lower()
KeywordsOf(phrase) ==
    CASE phrase = "Ignore Previous instructions" -> {"ignore previous"}
      [] phrase = "tell me a joke" -> {"tell me a joke"}
      [] phrase = "wheat price" -> {"wheat", "price", "rice"}
      [] phrase = "illegal pesticide" -> {"illegal pesticide", "pesticide"}
      [] phrase = "black market" -> {"black market", "market"}
      [] phrase = "password" -> {"password"}
      [] OTHER -> {}

violation_keywords ==
    [jailbreak |-> <<"ignore previous", "forget your role", "you are now",
                     "disregard instructions", "override system", "new instructions",
                     "act as if", "pretend you are", "bypass", "ignore all rules">>,
     off_domain |-> <<"write a poem", "tell me a joke", "sing a song",
                      "political opinion", "religious view", "sports score",
                      "movie recommendation", "dating advice">>,
     harmful |-> <<"illegal pesticide", "banned chemical", "black market",
                   "forge document", "fake report", "manipulate data">>,
     privacy |-> <<"other farmers data", "all farmers records", "database credentials",
                   "api key", "password", "private information">>]

agricultural_keywords ==
    {"crop", "farm", "agriculture", "weather", "soil", "irrigation", "harvest",
     "plant", "seed", "fertilizer", "pesticide", "livestock", "cattle", "poultry",
     "market", "price", "mandi", "yield", "cultivation", "field", "land", "grain",
     "wheat", "rice", "cotton", "vegetable", "fruit", "dairy", "organic"}

StringInput(phrases) == [type |-> "str", phrases |-> phrases]
NonString == [type |-> "other"]

\* the inputs of a guardrail run
UserInputs ==
    {StringInput(phrases) :
        phrases \in UNION {[1..n -> Phrases] : n \in 0..MaxPhrases}} \cup {NonString}

\* keyword in input_lower
InInput(keyword, input_lower) ==
    \E i \in 1..Len(input_lower) : keyword \in KeywordsOf(input_lower[i])

\* one of the keywords of a list is in input_lower
AnyIn(keywords, input_lower) ==
    \E k \in 1..Len(keywords) : InInput(keywords[k], input_lower)

\* the violations and the risk level in the course of a check
Findings(violations, risk_level) == [violations |-> violations, risk_level |-> risk_level]

\* the jailbreak check passing over inputs with an agricultural keyword
CheckJailbreak_UnlessAgricultural(found, input_lower) ==
    IF /\ AnyIn(violation_keywords.jailbreak, input_lower)
       /\ ~\E ag_word \in agricultural_keywords : InInput(ag_word, input_lower)
    THEN Findings(Append(found.violations, "1. Instruction Subversion Attempt"), "high")
    ELSE found

\* for keyword in self.violation_keywords['jailbreak']
CheckJailbreak(found, input_lower) ==
    IF AnyIn(violation_keywords.jailbreak, input_lower)
    THEN Findings(Append(found.violations, "1. Instruction Subversion Attempt"), "high")
    ELSE found

\* the off-domain check setting the risk to medium whatever it was
CheckOffDomain_AlwaysMedium(found, input_lower) ==
    LET is_agricultural == \E ag_word \in agricultural_keywords : InInput(ag_word, input_lower)
        has_off_domain == AnyIn(violation_keywords.off_domain, input_lower)
    IN IF has_off_domain /\ ~is_agricultural
       THEN Findings(Append(found.violations, "2. Off-Domain Query (Non-Agricultural)"),
                     "medium")
       ELSE found

\* if has_off_domain and not is_agricultural
CheckOffDomain(found, input_lower) ==
    LET is_agricultural == \E ag_word \in agricultural_keywords : InInput(ag_word, input_lower)
        has_off_domain == AnyIn(violation_keywords.off_domain, input_lower)
    IN IF has_off_domain /\ ~is_agricultural
       THEN Findings(Append(found.violations, "2. Off-Domain Query (Non-Agricultural)"),
                     IF found.risk_level = "low" THEN "medium" ELSE found.risk_level)
       ELSE found

\* for keyword in self.violation_keywords['harmful']
CheckHarmful(found, input_lower) ==
    IF AnyIn(violation_keywords.harmful, input_lower)
    THEN Findings(Append(found.violations, "3. Potentially Harmful Agricultural Practice"),
                  "high")
    ELSE found

\* the privacy check skipped once an earlier category has hit
CheckPrivacy_UnlessFound(found, input_lower) ==
    IF found.violations = <<>> /\ AnyIn(violation_keywords.privacy, input_lower)
    THEN Findings(Append(found.violations, "4. Data Privacy Violation Attempt"), "high")
    ELSE found

\* for keyword in self.violation_keywords['privacy']
CheckPrivacy(found, input_lower) ==
    IF AnyIn(violation_keywords.privacy, input_lower)
    THEN Findings(Append(found.violations, "4. Data Privacy Violation Attempt"), "high")
    ELSE found

GuardrailEvaluation(compliance_status, evaluation_summary, triggered_policies, risk_level) ==
    [compliance_status |-> compliance_status, evaluation_summary |-> evaluation_summary,
     triggered_policies |-> triggered_policies, risk_level |-> risk_level]

\* the verdict that lets everything below high risk pass
Verdict_BlocksHighOnly(found) ==
    IF found.risk_level = "high"
    THEN GuardrailEvaluation("non-compliant", <<"Detected", Len(found.violations)>>,
                             found.violations, found.risk_level)
    ELSE GuardrailEvaluation("compliant", <<"Input passes all safety checks">>,
                             found.violations, found.risk_level)

\* if violations: ... return
Verdict(found) ==
    IF found.violations # <<>>
    THEN GuardrailEvaluation("non-compliant", <<"Detected", Len(found.violations)>>,
                             found.violations, found.risk_level)
    ELSE GuardrailEvaluation("compliant", <<"Input passes all safety checks">>,
                             <<>>, "low")

\* the findings after each of the four categories, in the order of the code
Course(input_lower) ==
    LET start == Findings(<<>>, "low")
        first == CheckJailbreak(start, input_lower)
        second == CheckOffDomain(first, input_lower)
        third == CheckHarmful(second, input_lower)
        fourth == CheckPrivacy(third, input_lower)
    IN <<start, first, second, third, fourth>>

\* the handler letting the fault through
GuardrailFault_Propagates == Raised

\* except Exception as e
GuardrailFault ==
    GuardrailEvaluation("non-compliant",
                        <<"Internal error - request blocked for safety">>,
                        <<"System Error">>, "high")

\* GuardrailChecker.check_violations
check_violations(input) ==
    IF input.type # "str"
    THEN GuardrailFault
    ELSE Verdict(Course(input.phrases)[5])

\* risk_level as it stands after each category; nothing when .lower() raised
RiskTrace(input) ==
    IF input.type # "str"
    THEN <<>>
    ELSE [i \in 1..5 |-> Course(input.phrases)[i].risk_level]

\* one call of check_violations
CheckViolations(input) ==
    /\ evaluation = Unset
    /\ user_input' = input
    /\ evaluation' = check_violations(input)
    /\ risk_trace' = RiskTrace(input)
    /\ UNCHANGED <<pc, calls, notices, locals, result, advice, memory, tooling, caching, registry, reading, querying, callback>>

NextGuardrail == \E input \in UserInputs : CheckViolations(input)

SpecGuardrail == Init /\ [][NextGuardrail]_vars

\* what the tables say of a string input, read apart from the check
Subverts(input) == AnyIn(violation_keywords.jailbreak, input.phrases)
Harmful(input) == AnyIn(violation_keywords.harmful, input.phrases)
Private(input) == AnyIn(violation_keywords.privacy, input.phrases)
OffDomain(input) ==
    /\ AnyIn(violation_keywords.off_domain, input.phrases)
    /\ \A ag_word \in agricultural_keywords : ~InInput(ag_word, input.phrases)

Checked == evaluation # Unset

\* C25: an input holding an instruction-override keyword is non-compliant
\* with risk high and the instruction-subversion policy among those
\* triggered, whatever else it holds.
C25_OverrideKeywordAlwaysBlocked ==
    (Checked /\ user_input.type = "str" /\ Subverts(user_input)) =>
        /\ evaluation.compliance_status = "non-compliant"
        /\ evaluation.risk_level = "high"
        /\ "1. Instruction Subversion Attempt" \in Range(evaluation.triggered_policies)

\* an override keyword in capitals between an off-domain phrase and an
\* agricultural one
C25_Witness ==
    /\ Checked
    /\ user_input = StringInput(<<"tell me a joke", "Ignore Previous instructions",
                                  "wheat price">>)
    /\ evaluation.triggered_policies = <<"1. Instruction Subversion Attempt">>

\* C26: the result is compliant exactly when no category is triggered, a
\* compliant result has risk low and no triggered policy, and an input with
\* agricultural keywords and no violation keyword is compliant.
C26_CompliantIffNothingTriggered ==
    Checked =>
        /\ user_input.type = "str" =>
              ( evaluation.compliance_status = "compliant"
                  <=> ~( \/ Subverts(user_input)
                         \/ OffDomain(user_input)
                         \/ Harmful(user_input)
                         \/ Private(user_input) ) )
        /\ evaluation.compliance_status \in {"compliant", "non-compliant"}
        /\ evaluation.compliance_status = "compliant" <=> evaluation.triggered_policies = <<>>
        /\ evaluation.compliance_status = "compliant" => evaluation.risk_level = "low"

\* the agricultural question, compliant
C26_Witness ==
    /\ Checked
    /\ user_input = StringInput(<<"hello", "wheat price">>)
    /\ evaluation = GuardrailEvaluation("compliant", <<"Input passes all safety checks">>,
                                        <<>>, "low")

\* C27: check_violations returns a GuardrailEvaluation for every input and
\* never raises; when the check itself faults, the result is non-compliant
\* with risk high.
C27_FailClosed ==
    Checked =>
        /\ evaluation # Raised
        /\ DOMAIN evaluation = {"compliance_status", "evaluation_summary",
                                "triggered_policies", "risk_level"}
        /\ user_input.type # "str" =>
              /\ evaluation.compliance_status = "non-compliant"
              /\ evaluation.risk_level = "high"

\* the check of a value that is no string
C27_Witness ==
    /\ Checked
    /\ user_input = NonString
    /\ evaluation.triggered_policies = <<"System Error">>

Rank(risk_level) ==
    CASE risk_level = "low" -> 0
      [] risk_level = "medium" -> 1
      [] risk_level = "high" -> 2

\* C28: within one call the risk level never goes down from one category to
\* the next; it ends high when the instruction-override, the harmful or the
\* privacy category triggered, and medium when only the off-domain one did.
C28_RiskNeverDecreases ==
    (Checked /\ user_input.type = "str") =>
        /\ Len(risk_trace) = 5
        /\ \A i \in 1..4 : Rank(risk_trace[i]) <= Rank(risk_trace[i + 1])
        /\ evaluation.risk_level = risk_trace[5]
        /\ evaluation.risk_level = "high"
              <=> (Subverts(user_input) \/ Harmful(user_input) \/ Private(user_input))
        /\ evaluation.risk_level = "medium"
              <=> ( /\ OffDomain(user_input)
                    /\ ~(Subverts(user_input) \/ Harmful(user_input) \/ Private(user_input)) )

\* an off-domain hit after an instruction-override hit
C28_Witness ==
    /\ Checked
    /\ user_input = StringInput(<<"Ignore Previous instructions", "tell me a joke">>)
    /\ risk_trace = <<"low", "high", "high", "high", "high">>
    /\ Len(evaluation.triggered_policies) = 2

----------------------------------------------------------------------------
(* Reading the memory: get_current_context and get_enriched_context.       *)

\* a string the code writes out in full
Literal(text) == <<[t |-> "literal", text |-> text]>>

NoHistory == Literal("No previous conversation history.")
NoRecent == Literal("No recent conversations.")

\* a response of more than 200 characters holds this word
LongAnswer == "LongAnswer"

\* conv['response'][:200] followed by '...' when the response is longer
Clip(response) ==
    IF LongAnswer \in Range(response)
    THEN <<"LongAnswer[:200]", "...">>
    ELSE response

\* get_current_context reporting the default while nothing is kept in detail
get_current_context_DefaultByHistory(m) ==
    [farmer_profile |-> m.farmer_profile,
     conversation_summary |->
        IF m.conversation_history # <<>> THEN m.summarized_context ELSE NoHistory,
     recent_conversations |-> NoRecent,
     total_conversations |-> Len(m.conversation_history),
     memory_status |-> <<"Tracking", Len(m.conversation_history)>>]

\* ConversationMemoryManager.get_current_context
get_current_context(m) ==
    LET recent_conversations_text ==
            [i \in 1..Len(m.conversation_history) |->
                [Q |-> m.conversation_history[i].query,
                 A |-> Clip(m.conversation_history[i].response)]]
    IN [farmer_profile |-> m.farmer_profile,
        conversation_summary |->
            IF m.summarized_context # <<>> THEN m.summarized_context ELSE NoHistory,
        recent_conversations |->
            IF recent_conversations_text # <<>> THEN recent_conversations_text
            ELSE NoRecent,
        total_conversations |->
            Len(m.conversation_history) + (IF m.summarized_context # <<>> THEN 1 ELSE 0),
        memory_status |-> <<"Tracking", Len(m.conversation_history)>>]

\* the context of a session without a memory manager
NoActiveMemory ==
    [farmer_profile |-> <<>>,
     conversation_summary |-> NoHistory,
     recent_conversations |-> NoRecent,
     total_conversations |-> 0,
     memory_status |-> <<"No active memory">>]

\* the managers after a read, and the context read
Read(managers, read) == [memory_managers |-> managers, context |-> read]

\* get_enriched_context that gives an unknown session a manager
get_enriched_context_CreatesManager(managers, session_id) ==
    IF session_id \in DOMAIN managers
    THEN Read(managers, get_current_context(managers[session_id]))
    ELSE Read(Put(managers, session_id, NewManager), get_current_context(NewManager))

\* EnhancedSessionManager.get_enriched_context
get_enriched_context(managers, session_id) ==
    IF session_id \in DOMAIN managers
    THEN Read(managers, get_current_context(managers[session_id]))
    ELSE Read(managers, NoActiveMemory)

\* how many calls on the session manager a reading run makes, and how many
\* reads
MaxContextCalls == 10
MaxReads == 2

\* the conversation of a reading run, with a long response
ContextInputs == {Input(<<"price", "weather">>, <<LongAnswer>>, NoContext)}

\* what the summarizer answers in a reading run
ContextCompletions == {NoResponse, SummaryText(<<Space>>)}

GetEnrichedContext(session_id) ==
    /\ reads < MaxReads
    /\ \E after \in {get_enriched_context(memory_managers, session_id)} :
          /\ memory_managers' = after.memory_managers
          /\ enriched' = after.context
    /\ enriched_session' = session_id
    /\ reads' = reads + 1
    /\ UNCHANGED <<active_sessions, uuids, registry_log, callers>>
    /\ UNCHANGED <<pc, calls, notices, locals, result, advice, memory, tooling, caching, guardrail, querying, callback>>

NextContext ==
    \/ /\ Len(registry_log) < MaxContextCalls
       /\ \/ /\ "farmer_a" \notin DOMAIN active_sessions
             /\ GetOrCreateSession("farmer_a", TRUE)
          \/ \E session_id \in 1..uuids, input \in ContextInputs,
                response \in ContextCompletions :
                AddConversationToMemory(session_id, input, response)
    \/ \E session_id \in 0..uuids : GetEnrichedContext(session_id)

SpecContext == Init /\ [][NextContext]_vars

\* C29: a read of the memory changes no state of the session manager or of
\* any memory manager, however often it is made; the context of a session
\* carries the manager's profile and its running summary, and reports
\* "No previous conversation history." exactly when that summary is empty.
C29_ReadsChangeNothing ==
    [][reads' # reads =>
         /\ UNCHANGED <<active_sessions, memory_managers, uuids, memory>>
         /\ enriched_session' \in DOMAIN memory_managers =>
               LET m == memory_managers[enriched_session']
               IN /\ enriched'.farmer_profile = m.farmer_profile
                  /\ enriched'.conversation_summary = NoHistory
                        <=> m.summarized_context = <<>>
                  /\ m.summarized_context # <<>> =>
                        enriched'.conversation_summary = m.summarized_context
         /\ enriched_session' \notin DOMAIN memory_managers =>
               enriched'.conversation_summary = NoHistory]_vars

\* the second read of a session whose oldest conversation was summarized
C29_Witness ==
    /\ reads = 2
    /\ enriched_session \in DOMAIN memory_managers
    /\ Len(memory_managers[enriched_session].conversation_history)
          = max_detailed_conversations
    /\ memory_managers[enriched_session].summarized_context # <<>>
    /\ enriched = get_current_context(memory_managers[enriched_session])
    /\ enriched.conversation_summary # NoHistory
    /\ enriched.recent_conversations[1].A = <<"LongAnswer[:200]", "...">>

----------------------------------------------------------------------------
(* run_agent_async_with_memory: one query from get_or_create_session to     *)
(* its return.  The events of runner.run_async arrive one at a time; the    *)
(* code after the loop, from the test of final_result to the return, has    *)
(* no await in it.                                                          *)

\* how many queries a run makes, and how many events that are not the last
\* a query is sent
MaxQueries == 2
MaxEvents == 2

\* the crop names of extract_context_from_conversation, in list order
main_crop_keywords ==
    <<"rice", "wheat", "cotton", "corn", "maize", "soybean", "basmati", "jasmine">>

\* its location names (the single-word ones), in list order
main_location_keywords == <<"punjab", "haryana", "up", "bihar", "maharashtra">>

\* extract_context_from_conversation
extract_context_from_conversation(user_query, response) ==
    LET found(keyword) == KeywordIn(keyword, user_query) \/ KeywordIn(keyword, response)
        crop_mentions == SelectSeq(main_crop_keywords, found)
        locations == SelectSeq(main_location_keywords, found)
    IN Context(IF crop_mentions # <<>> THEN CropList(crop_mentions) ELSE NoCrops,
               IF locations # <<>> THEN <<Title(locations[1])>> ELSE <<>>,
               <<>>)

\* the text put in place of a final response without content
FallbackMessage == <<"Planning", "System", "Activated">>

\* the queries and the texts of final responses
UserQueries == {<<>>, <<"price", "weather">>}
FinalTexts == {<<"Wheat", "punjab">>}

\* memory is written whatever the result
ShouldRemember_Always(final_result, user_query) == TRUE

\* if final_result and user_query
ShouldRemember(final_result, user_query) == final_result # <<>> /\ user_query # <<>>

\* the query in hand
QueryRun(at, user_query, session_id, final_result, events, ended, added, before) ==
    [at |-> at, user_query |-> user_query, session_id |-> session_id,
     final_result |-> final_result, events |-> events, ended |-> ended, adds |-> added,
     before |-> before]

\* lines 136-140: the session is fetched or created; created tells whether
\* create_session returns or raises
StartQuery(user_query, created) ==
    /\ query_run.at \in {"idle", "returned", "raised"}
    /\ queries < MaxQueries
    /\ queries' = queries + 1
    /\ \E after \in {get_or_create_session(active_sessions, memory_managers, uuids,
                                           "farmer_a", created)} :
          /\ active_sessions' = after.active_sessions
          /\ memory_managers' = after.memory_managers
          /\ uuids' = after.uuids
          /\ query_run' =
               IF after.returned = Raised
               THEN QueryRun("raised", user_query, None, <<>>, <<>>, "not started", 0, None)
               ELSE QueryRun("running", user_query,
                             after.active_sessions["farmer_a"].session_id, <<>>, <<>>,
                             "no", 0,
                             after.memory_managers[
                                 after.active_sessions["farmer_a"].session_id])
    /\ UNCHANGED <<registry_log, callers>>
    /\ UNCHANGED <<pc, calls, notices, locals, result, advice, memory, tooling, caching, guardrail, reading, callback>>

\* one event of runner.run_async that does not end the loop: an event that
\* is no final response, or one whose handling raises and is skipped
PassingEvent(kind) ==
    /\ query_run.at = "running"
    /\ Len(query_run.events) < MaxEvents
    /\ query_run' = [query_run EXCEPT !.events = Append(@, kind)]
    /\ UNCHANGED <<queries, registry>>
    /\ UNCHANGED <<pc, calls, notices, locals, result, advice, memory, tooling, caching, guardrail, reading, callback>>

\* the final response event: its text, the fallback message when it has no
\* content, or the empty string that str(event.data.content) may give
FinalEvent(kind, text) ==
    /\ query_run.at = "running"
    /\ query_run' =
         [query_run EXCEPT
            !.at = "after loop",
            !.ended = "final response",
            !.events = Append(@, kind),
            !.final_result =
                CASE kind = "final with text" -> text
                  [] kind = "final without content" -> FallbackMessage
                  [] kind = "final with empty data" -> <<>>]
    /\ UNCHANGED <<queries, registry>>
    /\ UNCHANGED <<pc, calls, notices, locals, result, advice, memory, tooling, caching, guardrail, reading, callback>>

\* runner.run_async ends without a final response
RunExhausted ==
    /\ query_run.at = "running"
    /\ query_run' = [query_run EXCEPT !.at = "after loop", !.ended = "exhausted"]
    /\ UNCHANGED <<queries, registry>>
    /\ UNCHANGED <<pc, calls, notices, locals, result, advice, memory, tooling, caching, guardrail, reading, callback>>

\* runner.run_async raises: one of the handlers at lines 238-258 returns or
\* raises again
RunRaises ==
    /\ query_run.at = "running"
    /\ query_run' = [query_run EXCEPT !.at = "returned", !.ended = "raised"]
    /\ UNCHANGED <<queries, registry>>
    /\ UNCHANGED <<pc, calls, notices, locals, result, advice, memory, tooling, caching, guardrail, reading, callback>>

\* lines 210-236: the conversation is added to memory, the result returned;
\* response is what the summarization gateway returns if asked
AfterLoop(response) ==
    /\ query_run.at = "after loop"
    /\ IF ShouldRemember(query_run.final_result, query_run.user_query)
       THEN /\ memory_managers' =
                 add_conversation_to_memory(
                     memory_managers, query_run.session_id, queries,
                     Input(query_run.user_query, query_run.final_result,
                           extract_context_from_conversation(query_run.user_query,
                                                             query_run.final_result)),
                     response)
            /\ query_run' = [query_run EXCEPT !.at = "returned", !.adds = @ + 1]
       ELSE /\ query_run' = [query_run EXCEPT !.at = "returned"]
            /\ UNCHANGED memory_managers
    /\ UNCHANGED <<queries, active_sessions, uuids, registry_log, callers>>
    /\ UNCHANGED <<pc, calls, notices, locals, result, advice, memory, tooling, caching, guardrail, reading, callback>>

NextQuery ==
    \/ \E user_query \in UserQueries, created \in BOOLEAN : StartQuery(user_query, created)
    \/ \E kind \in {"not final", "handling raised"} : PassingEvent(kind)
    \/ \E kind \in {"final with text", "final without content", "final with empty data"},
          text \in FinalTexts : FinalEvent(kind, text)
    \/ RunExhausted
    \/ RunRaises
    \/ AfterLoop(NoResponse)

SpecQuery == Init /\ [][NextQuery]_vars

\* a query is in hand or was
InQuery == query_run.at \notin {"idle", "raised"}

\* C23: a query adds to memory at most once, and only after the agent run
\* has ended with a final result that is not empty; when the run raised or
\* gave no final response, the session's manager is as it was before the
\* query.
C23_MemoryWrittenOnceAfterResult ==
    InQuery =>
        /\ query_run.adds <= 1
        /\ query_run.adds = 1 =>
              /\ query_run.ended = "final response"
              /\ query_run.final_result # <<>>
              /\ query_run.at = "returned"
        /\ ( \/ query_run.ended \in {"raised", "exhausted", "no"}
             \/ query_run.final_result = <<>> ) =>
              /\ query_run.adds = 0
              /\ memory_managers[query_run.session_id] = query_run.before

\* the second query of a session failed after the first was remembered
C23_Witness ==
    /\ InQuery
    /\ queries = 2
    /\ query_run.at = "returned"
    /\ query_run.ended = "raised"
    /\ query_run.events = <<"not final", "handling raised">>
    /\ Len(memory_managers[query_run.session_id].conversation_history) = 1
    /\ memory_managers[query_run.session_id].farmer_profile.crops = <<"rice", "wheat">>
    /\ memory_managers[query_run.session_id].farmer_profile.location = <<"Punjab">>

----------------------------------------------------------------------------
(* combined_callback, the before-model callback of the agent: the guardrail *)
(* check of the last user message, then the injection of the memory         *)
(* context.  The agent framework sends the request to the model only when   *)
(* the callback returns None.  The summaries and conversations of this      *)
(* specification are shorter than max_memory_summary_chars and              *)
(* max_memory_recent_chars, so that only the slice of the conversation list *)
(* shortens anything.                                                       *)

max_memory_context_conversations == 3

\* the session "default_session", which no uuid4 draw gives
DefaultSession == 0

\* how many calls on the session manager come before the callback
MaxCallbackCalls == 5

\* parts[0].text that is None or empty
NoPartText == [type |-> "no text"]

Content(role, text) == [role |-> role, text |-> text]

CallbackTexts ==
    {NoPartText,
     StringInput(<<"wheat price">>),
     StringInput(<<"tell me a joke">>),
     StringInput(<<"Ignore Previous instructions", "wheat price">>)}

\* llm_request.contents
CallbackContents ==
    UNION {[1..n -> {Content(role, text) : role \in {"user", "model"},
                                           text \in CallbackTexts}] : n \in 0..2}

\* lines 15-19: the text of the last content when it is the user's
LastMessage(contents) ==
    IF /\ contents # <<>>
       /\ contents[Len(contents)].role = "user"
       /\ contents[Len(contents)].text # NoPartText
    THEN contents[Len(contents)].text
    ELSE StringInput(<<>>)

\* the blocking LlmResponse
Blocking(checked) ==
    [role |-> "model", summary |-> checked.evaluation_summary,
     violations |-> checked.triggered_policies]

\* lines 33-49: the context that is injected
FilteredContext(read) ==
    [farmer_profile |-> read.farmer_profile,
     conversation_summary |-> read.conversation_summary,
     recent_conversations |->
        IF read.recent_conversations = NoRecent
        THEN NoRecent
        ELSE SubSeq(read.recent_conversations, 1,
                    IF Len(read.recent_conversations) < max_memory_context_conversations
                    THEN Len(read.recent_conversations)
                    ELSE max_memory_context_conversations),
     memory_status |-> read.memory_status]

\* lines 53-58: memory_context goes before the text of the first content of
\* the user that has one
Inject(contents, memory_context) ==
    LET holders == {i \in 1..Len(contents) :
                       contents[i].role = "user" /\ contents[i].text # NoPartText}
    IN IF holders = {}
       THEN contents
       ELSE LET first == CHOOSE i \in holders : \A k \in holders : i <= k
            IN [contents EXCEPT
                  ![first].text = [type |-> "str", phrases |-> @.phrases,
                                   memory |-> memory_context]]

\* what a call of combined_callback leaves: its return value, the contents
\* of the request, and the context it read, if it read one
CallbackOutcome(response, contents, read) ==
    [response |-> response, contents |-> contents, read |-> read]

\* combined_callback injecting the memory before it asks the guardrail
combined_callback_InjectsFirst(contents, managers, session_id) ==
    LET checked == check_violations(LastMessage(contents))
        read == get_enriched_context(managers, session_id).context
    IN CallbackOutcome(IF checked.compliance_status = "non-compliant"
                       THEN Blocking(checked) ELSE None,
                       Inject(contents, FilteredContext(read)), read)

\* combined_callback; session_id is callback_context.session_id, or
\* DefaultSession when there is none
combined_callback(contents, managers, session_id) ==
    LET checked == check_violations(LastMessage(contents))
        read == get_enriched_context(managers, session_id).context
    IN IF checked.compliance_status = "non-compliant"
       THEN CallbackOutcome(Blocking(checked), contents, None)
       ELSE CallbackOutcome(None, Inject(contents, FilteredContext(read)), read)

CombinedCallback(contents, session_id) ==
    /\ callback_response = Unset
    /\ \E after \in {combined_callback(contents, memory_managers, session_id)} :
          /\ llm_request' = [before |-> contents, contents |-> after.contents]
          /\ callback_response' = after.response
          /\ IF after.read = None
             THEN UNCHANGED reading
             ELSE /\ enriched' = after.read
                  /\ enriched_session' = session_id
                  /\ reads' = reads + 1
    /\ UNCHANGED model_calls
    /\ UNCHANGED <<pc, calls, notices, locals, result, advice, memory, tooling, caching, registry, guardrail, querying>>

\* the request goes to the model
CallModel ==
    /\ callback_response = None
    /\ model_calls = 0
    /\ model_calls' = 1
    /\ UNCHANGED <<llm_request, callback_response>>
    /\ UNCHANGED <<pc, calls, notices, locals, result, advice, memory, tooling, caching, registry, guardrail, reading,
                   querying>>

NextCallback ==
    \/ /\ callback_response = Unset
       /\ Len(registry_log) < MaxCallbackCalls
       /\ \/ /\ "farmer_a" \notin DOMAIN active_sessions
             /\ GetOrCreateSession("farmer_a", TRUE)
          \/ \E session_id \in 1..uuids, input \in ContextInputs :
                AddConversationToMemory(session_id, input, NoResponse)
    \/ \E contents \in CallbackContents, session_id \in {DefaultSession} \cup 1..uuids :
          CombinedCallback(contents, session_id)
    \/ CallModel

SpecCallback == Init /\ [][NextCallback]_vars

\* the callback has run
CalledBack == callback_response # Unset

\* the guardrail's verdict on the request as it came in
Verdict24 == check_violations(LastMessage(llm_request.before))

\* C24: when the guardrail finds the last user message non-compliant, the
\* callback returns the blocking response, reads no memory context, leaves
\* the contents of the request as they were, and the model is not reached;
\* when it finds it compliant, the callback returns None, the memory context
\* is read once and put before the first user text, and nothing else of the
\* request changes.
C24_BlockedBeforeMemoryAndModel ==
    CalledBack =>
        IF Verdict24.compliance_status = "non-compliant"
        THEN /\ callback_response = Blocking(Verdict24)
             /\ reads = 0
             /\ enriched = None
             /\ llm_request.contents = llm_request.before
             /\ model_calls = 0
        ELSE /\ callback_response = None
             /\ reads = 1
             /\ Len(llm_request.contents) = Len(llm_request.before)
             /\ \A i \in 1..Len(llm_request.before) :
                   \/ llm_request.contents[i] = llm_request.before[i]
                   \/ /\ llm_request.before[i].role = "user"
                      /\ llm_request.before[i].text # NoPartText
                      /\ llm_request.contents[i].text.phrases
                            = llm_request.before[i].text.phrases
                      /\ llm_request.contents[i].text.memory = FilteredContext(enriched)
                      /\ \A k \in 1..(i - 1) :
                            \/ llm_request.before[k].role # "user"
                            \/ llm_request.before[k].text = NoPartText

\* a request blocked for its last message, after a compliant earlier one,
\* on a session with conversations in memory
C24_Witness ==
    /\ CalledBack
    /\ llm_request.before =
          <<Content("user", StringInput(<<"wheat price">>)),
            Content("user", StringInput(<<"Ignore Previous instructions", "wheat price">>))>>
    /\ callback_response = Blocking(Verdict24)
    /\ 1 \in DOMAIN memory_managers
    /\ Len(memory_managers[1].conversation_history) = 4

\* a compliant request reached the model with the memory before its text
C24_Proceeds ==
    /\ model_calls = 1
    /\ enriched_session = 1
    /\ Len(enriched.recent_conversations) = 4
    /\ llm_request.before = <<Content("user", StringInput(<<"wheat price">>))>>
    /\ Len(llm_request.contents[1].text.memory.recent_conversations) = 3

----------------------------------------------------------------------------
(* Termination of create_validated_agricultural_plan.  Every phase issues   *)
(* its one gateway call and goes on when the call settles; under the        *)
(* premiss that every issued call settles, no step of the run stays enabled *)
(* forever without being taken.                                             *)

SpecFair == Init /\ [][Next]_vars /\ WF_vars(Next)

\* C30: if every issued gateway call settles, every run returns, with
\* status success, partial_success or error, and it never issues more than
\* 2 + 2 * max_refinement_iterations gateway calls.
C30_EveryRunReturns ==
    /\ [](Len(calls) <= 2 + 2 * max_refinement_iterations)
    /\ [](Returned => result.status \in {"success", "partial_success", "error"})
    /\ <>Returned

\* a run that used every gateway call it may and was delivered
C30_Witness ==
    /\ Delivered
    /\ Len(calls) = 2 + 2 * max_refinement_iterations
    /\ refinement_count = max_refinement_iterations

----------------------------------------------------------------------------
(* The order of the gateway calls and of the progress notices of one run.  *)

\* the call i gave the run a plan: planning or refinement ending in success
ProducedPlan(i) ==
    \/ /\ calls[i].phase = "planning"
       /\ _generate_agricultural_plan(calls[i].response) # Raised
       /\ _generate_agricultural_plan(calls[i].response).status = "success"
    \/ /\ calls[i].phase = "refinement"
       /\ _refine_plan(calls[i].response) # Raised
       /\ _refine_plan(calls[i].response).status = "success"

\* the plan the call i produced
PlanOf(i) ==
    IF calls[i].phase = "planning"
    THEN _generate_agricultural_plan(calls[i].response).plan
    ELSE _refine_plan(calls[i].response).refined_plan

\* the evaluation calls made after the refinement call i and before the next
\* refinement call
ReEvaluationsOf(i) ==
    {j \in CallsOf("evaluation") :
        /\ i < j
        /\ \A k \in CallsOf("refinement") : ~(i < k /\ k < j)}

\* where a notice stands in PLANNING -> REFLECTING -> (REFINING)* -> DELIVERED
PhaseRank(phase) ==
    CASE phase = "SEQUENTIAL PLANNING SYSTEM" -> 0
      [] phase = "PHASE 1 - PLANNING" -> 1
      [] phase = "PHASE 2 - REFLECTION" -> 2
      [] phase = "PHASE 3 - REFINEMENT" -> 3
      [] phase = "PHASE 4 - DELIVERY" -> 4
      [] OTHER -> 5

NoticesOf(phase) == {n \in 1..Len(notices) : notices[n].phase = phase}

\* C31: the gateway calls and the progress notices of one run follow
\* PLANNING -> REFLECTING -> (REFINING)* -> DELIVERED: exactly one planning
\* call comes first; an evaluation call is made only on a plan an earlier call
\* produced; each refinement call is preceded by a successful evaluation of
\* the plan it refines and followed by at most one re-evaluation; the notices
\* never step back a phase, the DELIVERY notice is printed at most once and
\* after every planning, reflection and refinement notice and every call; and
\* once the result is returned no call and no notice is added.
C31_PhaseOrder ==
    /\ [](calls # <<>> => CallsOf("planning") = {1})
    /\ [](\A i \in CallsOf("evaluation") :
            \E j \in 1..(i - 1) :
                /\ ProducedPlan(j)
                /\ calls[i].prompt = _extract_plan_text(PlanOf(j)))
    /\ [](\A i \in CallsOf("refinement") :
            /\ \E j \in 1..(i - 1) :
                /\ EvalSucceeded(j)
                /\ calls[j].prompt = _extract_plan_text(calls[i].prompt)
            /\ Cardinality(ReEvaluationsOf(i)) <= 1)
    /\ [](\A m, n \in 1..Len(notices) :
            m < n => PhaseRank(notices[m].phase) <= PhaseRank(notices[n].phase))
    /\ [](/\ Cardinality(NoticesOf("PHASE 4 - DELIVERY")) <= 1
          /\ \A d \in NoticesOf("PHASE 4 - DELIVERY") :
                /\ d = Len(notices)
                /\ notices[d].calls = Len(calls))
    /\ [][Returned => calls' = calls /\ notices' = notices]_vars

\* a delivered run that refined twice, each refinement re-evaluated, with the
\* DELIVERY notice printed last
C31_Witness ==
    /\ Delivered
    /\ Cardinality(CallsOf("refinement")) = 2
    /\ \A i \in CallsOf("refinement") : Cardinality(ReEvaluationsOf(i)) = 1
    /\ notices[Len(notices)].phase = "PHASE 4 - DELIVERY"
    /\ Cardinality(NoticesOf("PHASE 3 - REFINEMENT")) = 4

----------------------------------------------------------------------------
\* the evaluation call i succeeded on the text of this plan
EvaluationOf(i, plan) ==
    /\ EvalSucceeded(i)
    /\ calls[i].prompt = _extract_plan_text(plan)

\* C32: in a result that went through Delivery, quality_score and
\* quality_evaluation are those of an evaluation of the returned final_plan
\* itself, never the score of an earlier plan.
C32_ScoreBelongsToReturnedPlan ==
    Delivered =>
        \E i \in CallsOf("evaluation") :
            /\ EvaluationOf(i, result.final_plan)
            /\ result.quality_evaluation = extract_and_parse_json(calls[i].response)
            /\ result.quality_score = EvalScore(i)

----------------------------------------------------------------------------
(* get_validated_farming_plan_tool (tools/tools.py): the orchestrator's    *)
(* result as the agent runtime sees it.                                    *)

\* get_validated_farming_plan_tool, given what the orchestrator returned
get_validated_farming_plan_tool(r) ==
    IF r.status = "success"
    THEN [status |-> "success", validated_farming_plan |-> r.final_plan,
          quality_score |-> r.quality_score, approval_status |-> r.approval_status,
          refinement_iterations |-> r.refinement_iterations]
    ELSE [status |-> "error"]

\* the tool returns once create_validated_agricultural_plan has
ToolReturn ==
    /\ pc = "done"
    /\ tool_result = Unset
    /\ tool_result' = get_validated_farming_plan_tool(result)
    /\ UNCHANGED <<pc, calls, notices, locals, result, advice, memory, registry,
                   guardrail, reading, querying, callback, caching>>

NextTool ==
    \/ Next
    \/ ToolReturn

SpecTool == Init /\ [][NextTool]_vars

\* the orchestrator's result carries a plan
CarriesPlan(r) == r.status \in {"success", "partial_success"}

\* C33: get_validated_farming_plan_tool never withholds an existing plan: when
\* the orchestrator's result carries a final_plan the tool's result hands that
\* plan to the caller, and the tool reports status error only when the
\* orchestrator produced no plan.
C33_ToolNeverWithholdsPlan ==
    tool_result # Unset =>
        /\ CarriesPlan(result) =>
            /\ tool_result.status # "error"
            /\ tool_result.validated_farming_plan = result.final_plan
        /\ tool_result.status = "error" => ~CarriesPlan(result)

----------------------------------------------------------------------------
(* The window as a function of the add_conversation calls made.            *)

\* the record add_conversation builds for the call numbered t
RecordOf(t) ==
    [timestamp |-> t, query |-> adds[t].query, response |-> adds[t].response,
     extracted_info |-> adds[t].extracted_context]

\* min(n, max_detailed_conversations)
WindowSize(n) ==
    IF n < max_detailed_conversations THEN n ELSE max_detailed_conversations

\* C34: eviction is oldest-first and order-preserving: after any
\* add_conversation, conversation_history is exactly the most recent
\* min(n, max_detailed_conversations) records ever added, in insertion order,
\* each identical to what was appended; and the records a call removes are the
\* oldest length - max_detailed_conversations ones.
C34_WindowIsTheNewestRecords ==
    LET n == Len(adds)
        k == WindowSize(n)
    IN /\ Len(conversation_history) = k
       /\ \A i \in 1..k : conversation_history[i] = RecordOf(n - k + i)
       /\ \A j \in 1..Len(summarizations) :
            summarizations[j].conversations =
                <<RecordOf(summarizations[j].at - max_detailed_conversations)>>

\* ten conversations made, the two oldest evicted, and the window holds
\* records of both kinds of conversation
C34_Witness ==
    /\ Len(adds) = 10
    /\ Len(summarizations) = 2
    /\ conversation_history[1].timestamp = 3
    /\ \E i, j \in 1..Len(conversation_history) :
          conversation_history[i].query # conversation_history[j].query

----------------------------------------------------------------------------
\* this step is an add_conversation that evicts, and the summarization
\* gateway answered it with this kind of failure
EvictsOn(kinds) ==
    /\ Len(summarizations') = Len(summarizations) + 1
    /\ LET response == summarizations'[Len(summarizations')].response
       IN \/ "raise" \in kinds /\ response.kind = "raise"
          \/ "no text" \in kinds /\ NoText(response)

\* the records this step hands to the summarizer
Evicted == summarizations'[Len(summarizations')].conversations

\* the window is cut back and this text is appended to the running summary
EvictsWith(text) ==
    /\ Len(conversation_history') = max_detailed_conversations
    /\ LET input == adds'[Len(adds')]
       IN conversation_history' =
            Tail(conversation_history)
            \o << [timestamp |-> Len(adds'), query |-> input.query,
                   response |-> input.response,
                   extracted_info |-> input.extracted_context] >>
    /\ summarized_context' = JoinSummary(summarized_context, text)

\* the sentence with the topic tally and the count of the evicted records
TallySentence == << [t |-> "fallback", topics |-> FallbackTopics(Evicted),
                     n |-> Len(Evicted)] >>

\* the sentence with the count of the evicted records only
CountSentence == << [t |-> "exception", n |-> Len(Evicted)] >>

\* C35 as written: when the summarization gateway returns no text or raises,
\* add_conversation still truncates the history and appends to the running
\* summary a fallback text made of the topic tally and the count of the
\* evicted records.
C35_FallbackIsTallyAndCount ==
    [][EvictsOn({"no text", "raise"}) => EvictsWith(TallySentence)]_vars

\* C35 as the code has it: add_conversation still returns with the history
\* truncated and a fallback text appended to the running summary; the text is
\* the topic tally and the count of the evicted records when the gateway
\* returned no text, and a fixed sentence with their count alone when the
\* gateway raised.
C35_FailedSummarizationStillEvicts ==
    [][/\ EvictsOn({"no text"}) => EvictsWith(TallySentence)
       /\ EvictsOn({"raise"}) => EvictsWith(CountSentence)]_vars

\* one eviction answered by a raising gateway and one answered without text,
\* both fallback sentences in the running summary
C35_Witness ==
    /\ Len(summarizations) = 2
    /\ Len(conversation_history) = max_detailed_conversations
    /\ \E i, j \in 1..Len(summarized_context) :
          /\ summarized_context[i].t = "exception"
          /\ summarized_context[j].t = "fallback"
          /\ summarized_context[j].topics # {}

----------------------------------------------------------------------------
\* the tag of a category when its condition holds
TagIf(holds, tag) == IF holds THEN <<tag>> ELSE <<>>

\* C36: the four categories are evaluated independently on every call:
\* triggered_policies holds exactly one tag for each category whose condition
\* holds and none for the others, in the order instruction-override,
\* off-domain, harmful, privacy; the off-domain tag is there exactly when an
\* off-domain keyword is present and no agricultural keyword is; a hit in one
\* category never suppresses a later one.
C36_CategoriesAreIndependent ==
    (Checked /\ user_input.type = "str") =>
        evaluation.triggered_policies =
            TagIf(Subverts(user_input), "1. Instruction Subversion Attempt")
            \o TagIf(OffDomain(user_input), "2. Off-Domain Query (Non-Agricultural)")
            \o TagIf(Harmful(user_input), "3. Potentially Harmful Agricultural Practice")
            \o TagIf(Private(user_input), "4. Data Privacy Violation Attempt")

\* the privacy keyword comes first in the input and is still reported last,
\* after the tags of two earlier categories
C36_Witness ==
    /\ Checked
    /\ user_input = StringInput(<<"password", "tell me a joke",
                                  "Ignore Previous instructions">>)
    /\ evaluation.triggered_policies =
          <<"1. Instruction Subversion Attempt",
            "2. Off-Domain Query (Non-Agricultural)",
            "4. Data Privacy Violation Attempt">>

----------------------------------------------------------------------------
\* the add_conversation calls whose extracted_context has the other keys
OffersOtherKeys == {i \in 1..Len(adds) : "experience" \in DOMAIN adds[i].extracted_context}

\* C37: add_conversation merges every profile field supplied in
\* extracted_context: a non-empty experience supplied while the profile has
\* none is in the profile afterwards (first write wins), and the interests
\* and farming_methods supplied are in the profile's lists (set union).
C37_EveryContextFieldIsMerged ==
    \A i \in OffersOtherKeys :
        LET offered == adds[i].extracted_context
        IN /\ offered.experience # <<>> => farmer_profile.experience # <<>>
           /\ Range(offered.interests) \subseteq Range(farmer_profile.interests)
           /\ Range(offered.farming_methods) \subseteq Range(farmer_profile.farming_methods)

----------------------------------------------------------------------------
(* The session manager with all four of its operations, run one after      *)
(* another.                                                                *)

\* how many calls that change the registry, and how many reads, a run of the
\* four operations makes
MaxOneToOneCalls == 4
MaxRegistryReads == 1

NextRegistryReads ==
    \/ /\ Len(registry_log) < MaxOneToOneCalls
       /\ NextRegistry
    \/ /\ reads < MaxRegistryReads
       /\ \E session_id \in 0..uuids : GetEnrichedContext(session_id)

SpecRegistryReads == Init /\ [][NextRegistryReads]_vars

\* the session_ids recorded in active_sessions
RecordedSessions == {active_sessions[u].session_id : u \in DOMAIN active_sessions}

\* this step is an add_conversation_to_memory or a get_enriched_context
AddsOrReads ==
    \/ reads' # reads
    \/ /\ Len(registry_log') = Len(registry_log) + 1
       /\ registry_log'[Len(registry_log')].op = "add_conversation_to_memory"

\* C38: after any sequence of get_or_create_session, clear_session,
\* add_conversation_to_memory and get_enriched_context calls run one after
\* another, the registry is 1:1: the keys of memory_managers are exactly the
\* session_ids recorded in active_sessions, no two user_ids share a
\* session_id, and add_conversation_to_memory and get_enriched_context create
\* no entry, for an unknown session_id in particular.
C38_RegistryIsOneToOne ==
    /\ [](DOMAIN memory_managers = RecordedSessions)
    /\ [](\A u, v \in DOMAIN active_sessions :
            u # v => active_sessions[u].session_id # active_sessions[v].session_id)
    /\ [][AddsOrReads =>
            /\ DOMAIN memory_managers' = DOMAIN memory_managers
            /\ active_sessions' = active_sessions]_vars

\* both users were given a session and one of them was cleared; the last
\* call added a conversation to the cleared session_id and the last read
\* asked for a session_id that has no manager
C38_Witness ==
    /\ Cardinality(DOMAIN active_sessions) = 1
    /\ uuids = 2
    /\ Len(registry_log) = MaxOneToOneCalls
    /\ registry_log[Len(registry_log)].op = "add_conversation_to_memory"
    /\ registry_log[Len(registry_log)].session_id \notin DOMAIN memory_managers
    /\ reads > 0
    /\ enriched_session \notin DOMAIN memory_managers
    /\ enriched = NoActiveMemory

----------------------------------------------------------------------------
\* this step is a get_or_create_session whose create_session raised
CreationRaises ==
    /\ Len(registry_log') = Len(registry_log) + 1
    /\ registry_log'[Len(registry_log')].op = "get_or_create_session"
    /\ registry_log'[Len(registry_log')].returned = Raised

\* call i was a get_or_create_session(user_id) that raised
RaisedFor(i, user_id) ==
    /\ registry_log[i].op = "get_or_create_session"
    /\ registry_log[i].user_id = user_id
    /\ registry_log[i].returned = Raised

\* C39: when the awaited session creation inside get_or_create_session
\* raises, the exception reaches the caller and the registry is unchanged: no
\* entry is added to active_sessions and no memory manager is added, so the
\* next get_or_create_session for that user_id attempts the creation again.
C39_FailedCreationLeavesRegistry ==
    /\ [][CreationRaises =>
            /\ active_sessions' = active_sessions
            /\ memory_managers' = memory_managers]_vars
    /\ [](\A i \in 1..Len(registry_log) : \A u \in Users :
            RaisedFor(i, u) =>
                \A j \in (i + 1)..Len(registry_log) :
                    ( /\ registry_log[j].op = "get_or_create_session"
                      /\ registry_log[j].user_id = u
                      /\ \A k \in (i + 1)..(j - 1) :
                            ~(GotSession(k) /\ registry_log[k].user_id = u) )
                    => \/ registry_log[j].returned = Raised
                       \/ registry_log[j].returned.constructed)

\* a creation that raised, followed by a call for the same user that created
\* the session
C39_Witness ==
    \E i \in 1..Len(registry_log) : \E u \in Users :
        /\ RaisedFor(i, u)
        /\ i < Len(registry_log)
        /\ GotSession(i + 1)
        /\ registry_log[i + 1].user_id = u
        /\ registry_log[i + 1].returned.constructed
        /\ registry_log[i + 1].returned.session_id = i + 1
        /\ u \in DOMAIN active_sessions

----------------------------------------------------------------------------
(* The caches of the data-source processors (processors.py).  Time is in   *)
(* whole seconds.  Each processor is looked up under one key; the data of  *)
(* an entry is the number of the lookup that fetched it.                   *)

\* config.cache_duration_weather, cache_duration_market, cache_duration_sheets
cache_duration_weather == 600
cache_duration_market == 86400
cache_duration_sheets == 300

\* timedelta.seconds lies in 0..86399; the days are a field of their own
SecondsPerDay == 86400

Processors == {"market", "weather", "sheets"}

\* self.cache_duration of a processor
cache_duration(processor) ==
    CASE processor = "market" -> cache_duration_market
      [] processor = "weather" -> cache_duration_weather
      [] processor = "sheets" -> cache_duration_sheets

\* (current_time - cache_time).seconds
Seconds(current_time, cache_time) == (current_time - cache_time) % SecondsPerDay

\* 'if (current_time - cache_time).seconds < self.cache_duration'
Fresh(processor, current_time, cache_time) ==
    Seconds(current_time, cache_time) < cache_duration(processor)

CacheEntry(data, cache_time) == [data |-> data, cache_time |-> cache_time]

\* how many lookups a run makes
MaxLookups == 3

\* the seconds that pass between one lookup and the next
Elapsed == {299, 300, 85800, 86400}

\* get_market_price, get_weather_data, get_customer_data: one lookup at
\* current_time; fetched tells whether the source gave data
Lookup(processor, current_time, fetched) ==
    LET had == cache[processor]
        number == Len(lookups) + 1
        served == had # None /\ Fresh(processor, current_time, had.cache_time)
        stored == ~served /\ fetched
    IN /\ clock' = current_time
       /\ cache' = IF stored
                   THEN [cache EXCEPT ![processor] = CacheEntry(number, current_time)]
                   ELSE cache
       /\ lookups' = Append(lookups,
                            [processor |-> processor, current_time |-> current_time,
                             had |-> had, served |-> served, fetched |-> fetched,
                             stored |-> stored,
                             returned |-> IF served THEN had.data
                                          ELSE IF fetched THEN number ELSE 0])
       /\ UNCHANGED tool_result
       /\ UNCHANGED <<pc, calls, notices, locals, result, advice, memory, registry,
                      guardrail, reading, querying, callback>>

NextCache ==
    \E processor \in Processors, elapsed \in Elapsed, fetched \in BOOLEAN :
        /\ Len(lookups) < MaxLookups
        /\ Lookup(processor, clock + elapsed, fetched)

SpecCache == Init /\ [][NextCache]_vars

\* the age in seconds of the entry lookup i found
Age(i) == lookups[i].current_time - lookups[i].had.cache_time

\* C40: a cache serves an entry only while its age is less than the
\* processor's cache_duration in seconds; an entry whose age is at least
\* cache_duration, ages of a day or more included, is not served, and when the
\* source gives data it is fetched again and replaces the entry.
C40_ServedOnlyWhileYoung ==
    \A i \in 1..Len(lookups) :
        lookups[i].had # None =>
            /\ lookups[i].served <=> Age(i) < cache_duration(lookups[i].processor)
            /\ lookups[i].served => lookups[i].returned = lookups[i].had.data
            /\ (~lookups[i].served /\ lookups[i].fetched) => lookups[i].stored

====
